---- MODULE Spec2Model ----
(***************************************************************************)
(* Akita Geofence Notifier for Meshtastic: the node-state evaluation       *)
(* engine (geofence membership, stationary detection, notification         *)
(* cooldown) and the periodic check loop that drives it, together with the *)
(* ingestion and configuration threads that feed it.                       *)
(*                                                                         *)
(* Conventions of the model                                                *)
(*  - Strings the program formats and parses again (node names, fence      *)
(*    names, notification messages, cooldown keys) are sequences of        *)
(*    tokens; "x in msg" is token membership, msg.split("'") splits at the *)
(*    apostrophe token, an f-string is a concatenation.                    *)
(*  - Coordinates are small integers; calculate_distance_km is the         *)
(*    taxicab distance of the grid (symmetric, zero exactly on equal       *)
(*    points), standing for the haversine distance in km.                  *)
(*  - Time is in seconds.  The clock is advanced by the environment; the   *)
(*    statements of one step of a thread read the same clock value.        *)
(*  - Values have the types their annotations declare (no type confusion   *)
(*    from a hand-edited configuration file).                              *)
(***************************************************************************)
EXTENDS Integers, Sequences, FiniteSets, TLC

\* Python's None in an Optional numeric field (models.py).
None == -1

\* float('inf'), the "undefined distance" sentinel of calculate_distance_km.
INF == 999

\* notification.py: seconds between identical notifications.
NOTIFICATION_COOLDOWN == 60

\* stationary.py: deque(maxlen=NODE_HISTORY_MAXLEN); 50 in the source, scaled.
NODE_HISTORY_MAXLEN == 3

\* main.py: the stale cleanup runs when more than 3600 s passed since the last
\* one, and removes nodes whose newest sample is older than 7200 s.
CLEANUP_PERIOD == 3600
STALE_THRESHOLD == 7200

\* ---------------------------------------------------------------- bounds
\* The clock starts here (time.time() is far above the cooldown).
StartTime == 61
\* How many times the clock advances.
MaxAdvances == 1
\* Capacity given to the (unbounded) notification queue.
MaxQueue == 2
\* Pending threading.Timer objects of config_page.
MaxTimers == 1

\* ---------------------------------------------------------------- helpers
Abs(x) == IF x < 0 THEN -x ELSE x

Range(s) == {s[i] : i \in 1..Len(s)}

\* All orders in which a finite set can be iterated.
Orders(S) == {s \in [1..Cardinality(S) -> S] : Range(s) = S}

RECURSIVE Flatten(_)
Flatten(ss) == IF ss = <<>> THEN <<>> ELSE Head(ss) \o Flatten(Tail(ss))

\* A dict as a function with a finite domain.
DictGet(d, k, default) == IF k \in DOMAIN d THEN d[k] ELSE default
DictPut(d, k, v) == [x \in (DOMAIN d) \cup {k} |-> IF x = k THEN v ELSE d[x]]
\* A variant of DictPop that leaves the entry in the dict.
DictPopKept(d, k) == d
DictPop(d, k) == [x \in (DOMAIN d) \ {k} |-> d[x]]
EmptyDict == [x \in {} |-> 0]

\* ---------------------------------------------------------------- distance
\* A coordinate value float() rejects (a str such as "abc", a list), and the
\* float nan as a result.  An infinite coordinate is float('inf'), INF.
NonNumeric == -2
NaN == -3

\* calculate_distance_km raises: all four values pass float(), and math.cos
\* of an infinite latitude or math.sin of an infinite longitude difference
\* is a math domain error (ValueError), which nothing in the function catches.
distance_raises(lat1, lon1, lat2, lon2) ==
    /\ None \notin {lat1, lon1, lat2, lon2}
    /\ NonNumeric \notin {lat1, lon1, lat2, lon2}
    /\ \/ lat1 = INF
       \/ lat2 = INF
       \/ (lon1 = INF) # (lon2 = INF)

\* The value calculate_distance_km returns when it returns.
calculate_distance_km(lat1, lon1, lat2, lon2) ==
    IF None \in {lat1, lon1, lat2, lon2}
    THEN INF
    ELSE IF NonNumeric \in {lat1, lon1, lat2, lon2}
    THEN INF
    ELSE IF lon1 = INF /\ lon2 = INF
    THEN NaN
    ELSE Abs(lat2 - lat1) + Abs(lon2 - lon1)

\* ---------------------------------------------------------------- models
\* NodeInfo(node_id=...): the dataclass defaults.
NodeInfo(id) ==
    [node_id |-> id, name |-> <<"Unknown">>, latitude |-> None,
     longitude |-> None, last_heard |-> None]

\* node.name or f"Node {node_id[-4:]}"
NodeName(node) == IF node.name # <<>> THEN node.name ELSE <<"Node", node.node_id>>

GeofenceConfig(n, lat, lon, r) ==
    [name |-> n, latitude |-> lat, longitude |-> lon, radius_km |-> r]

\* ---------------------------------------------------------------- messages
\* The f-strings of geofence.py and stationary.py, as token sequences.
EnterMsg(node, fence, distance) ==
    NodeName(node) \o <<"(", node.node_id, ")", "entered", "geofence", "'">>
        \o fence.name
        \o <<"'", "(dist", ToString(distance), "<=", "radius",
             ToString(fence.radius_km), ")">>

\* A variant of ExitMsg that prints the distance whatever it is.
ExitMsgNoMarker(node, fence, distance) ==
    NodeName(node) \o <<"(", node.node_id, ")", "exited", "geofence", "'">>
        \o fence.name
        \o <<"'", "(dist", ToString(distance),
             ">", "radius", ToString(fence.radius_km), ")">>

ExitMsg(node, fence, distance) ==
    NodeName(node) \o <<"(", node.node_id, ")", "exited", "geofence", "'">>
        \o fence.name
        \o <<"'", "(dist",
             IF distance # INF THEN ToString(distance) ELSE "unknown distance",
             ">", "radius", ToString(fence.radius_km), ")">>

ExitUnknownMsg(node, fence_name) ==
    NodeName(node) \o <<"(", node.node_id, ")", "exited", "geofence", "'">>
        \o fence_name \o <<"'", "(position unknown)">>

StationaryMsg(node, thr, distance) ==
    NodeName(node) \o <<"(", node.node_id, ")", "has been stationary", "for",
                        ToString(thr), "(moved", ToString(distance), ")">>

MovingMsg(node, distance, span) ==
    NodeName(node) \o <<"(", node.node_id, ")", "is moving again", "(moved",
                        ToString(distance), "in", ToString(span), ")">>

\* msg.split(sep): the pieces of msg between the occurrences of the token sep.
RECURSIVE Split(_, _)
Split(msg, sep) ==
    IF \A i \in 1..Len(msg) : msg[i] # sep
    THEN <<msg>>
    ELSE LET k == CHOOSE i \in 1..Len(msg) :
                      msg[i] = sep /\ \A j \in 1..(i - 1) : msg[j] # sep
         IN  <<SubSeq(msg, 1, k - 1)>> \o Split(SubSeq(msg, k + 1, Len(msg)), sep)

\* ---------------------------------------------------------------- geofence
\* One notification of GeofenceModule.check_node: what happened, and the
\* message text built for it.
Event(kind, node, fence_name, distance, msg) ==
    [kind |-> kind, node_id |-> node.node_id, fence |-> fence_name,
     dist |-> distance, msg |-> msg]

\* self.geofences entries named fence_name, first one first:
\* next((f for f in self.geofences if f.name == fence_name), None)
FirstNamed(fences, fence_name) ==
    LET idx == {i \in 1..Len(fences) : fences[i].name = fence_name}
    IN  IF idx = {} THEN <<>>
        ELSE <<fences[CHOOSE i \in idx : \A j \in idx : i <= j]>>

\* A variant of IsInside that excludes the boundary (distance < radius_km).
IsInsideStrict(node, fence) ==
    LET distance == calculate_distance_km(node.latitude, node.longitude,
                                          fence.latitude, fence.longitude)
    IN  distance # INF /\ distance < fence.radius_km

\* is_inside of one fence: the distance is valid and distance <= radius_km.
IsInside(node, fence) ==
    LET distance == calculate_distance_km(node.latitude, node.longitude,
                                          fence.latitude, fence.longitude)
    IN  distance # INF /\ distance <= fence.radius_km

\* A variant of NewlyEntered that announces an entry on every check.
NewlyEnteredAlways(node, fence, previously_inside_fences) ==
    IsInside(node, fence)

\* "a new entry into this specific fence": inside, and not inside before.
NewlyEntered(node, fence, previously_inside_fences) ==
    IsInside(node, fence) /\ fence.name \notin previously_inside_fences

\* A variant of StoreMembership that stores the set whether or not it is
\* empty.
StoreMembershipAlways(inside, node_id, currently_inside_fences) ==
    DictPut(inside, node_id, currently_inside_fences)

\* check_node, "Update state for the node": a non-empty set is stored, and
\* with an empty one the node's entry is deleted.
StoreMembership(inside, node_id, currently_inside_fences) ==
    IF currently_inside_fences # {}
    THEN DictPut(inside, node_id, currently_inside_fences)
    ELSE DictPop(inside, node_id)

\* GeofenceModule.check_node(node) on the fence list `fences` and the
\* membership dict `inside`.  `order` is the order in which Python iterates
\* the set of previously-inside / exited fence names.  Returns the
\* notifications and the new membership dict.
check_node(fences, inside, node, order) ==
    IF node.latitude = None \/ node.longitude = None
    THEN IF node.node_id \in DOMAIN inside
         THEN [notifications |->
                  [i \in 1..Len(order) |->
                      Event("exited", node, order[i], INF,
                            ExitUnknownMsg(node, order[i]))],
               inside |-> DictPop(inside, node.node_id)]
         ELSE [notifications |-> <<>>, inside |-> inside]
    ELSE
      LET previously_inside_fences == DictGet(inside, node.node_id, {})
          Dist(f) == calculate_distance_km(node.latitude, node.longitude,
                                           f.latitude, f.longitude)
          currently_inside_fences ==
              {fences[i].name : i \in {j \in 1..Len(fences) : IsInside(node, fences[j])}}
          entered ==
              Flatten([i \in 1..Len(fences) |->
                  IF NewlyEntered(node, fences[i], previously_inside_fences)
                  THEN <<Event("entered", node, fences[i].name, Dist(fences[i]),
                               EnterMsg(node, fences[i], Dist(fences[i])))>>
                  ELSE <<>>])
          exited ==
              Flatten([i \in 1..Len(order) |->
                  LET exited_fence == FirstNamed(fences, order[i])
                  IN  IF exited_fence # <<>>
                      THEN <<Event("exited", node, order[i], Dist(exited_fence[1]),
                                   ExitMsg(node, exited_fence[1], Dist(exited_fence[1])))>>
                      ELSE <<>>])
      IN  [notifications |-> entered \o exited,
           inside |-> StoreMembership(inside, node.node_id, currently_inside_fences)]

\* A variant of ExitSet that takes every fence the node is outside of,
\* whatever its stored membership.
ExitSetOfOutside(fences, inside, node) ==
    IF node.latitude = None \/ node.longitude = None
    THEN DictGet(inside, node.node_id, {})
    ELSE {fences[i].name : i \in 1..Len(fences)}
            \ {fences[i].name : i \in {j \in 1..Len(fences) : IsInside(node, fences[j])}}

\* The set check_node iterates for its exit messages.
ExitSet(fences, inside, node) ==
    IF node.latitude = None \/ node.longitude = None
    THEN DictGet(inside, node.node_id, {})
    ELSE DictGet(inside, node.node_id, {})
            \ {fences[i].name : i \in {j \in 1..Len(fences) : IsInside(node, fences[j])}}


\* ---------------------------------------------------------------- stationary
Sample(t, lat, lon) == [t |-> t, lat |-> lat, lon |-> lon]

\* A variant of DequeAppend without the maxlen.
DequeAppendUnbounded(history, x) == Append(history, x)

\* deque(maxlen=NODE_HISTORY_MAXLEN).append(x)
DequeAppend(history, x) ==
    IF Len(history) >= NODE_HISTORY_MAXLEN
    THEN Tail(history) \o <<x>>
    ELSE Append(history, x)

\* A variant of ShouldAppend that looks at the coordinates only.
ShouldAppendOnMove(history, timestamp, node) ==
    \/ history = <<>>
    \/ node.latitude # history[Len(history)].lat
    \/ node.longitude # history[Len(history)].lon

\* The condition under which update_node_location appends the sample.
ShouldAppend(history, timestamp, node) ==
    \/ history = <<>>
    \/ /\ timestamp > history[Len(history)].t
       /\ \/ node.latitude # history[Len(history)].lat
          \/ node.longitude # history[Len(history)].lon

\* StationaryModule.update_node_location(node) on node_location_history.
update_node_location(histories, node, clock) ==
    IF node.latitude # None /\ node.longitude # None
    THEN LET timestamp == IF node.last_heard # None THEN node.last_heard ELSE clock
             history == DictGet(histories, node.node_id, <<>>)
         IN  IF ShouldAppend(history, timestamp, node)
             THEN DictPut(histories, node.node_id,
                          DequeAppend(history,
                                      Sample(timestamp, node.latitude, node.longitude)))
             ELSE DictPut(histories, node.node_id, history)
    ELSE histories

\* A variant of AnchorIndex that takes the oldest sample that is old enough.
AnchorIndexOldest(history, thr) ==
    LET last_time == history[Len(history)].t
        old == {i \in 1..Len(history) : last_time - history[i].t >= thr}
    IN  IF old = {} THEN 0 ELSE CHOOSE i \in old : \A j \in old : i <= j

\* The backward scan of check_node_stationary: the index of the most recent
\* sample at least thr older than the last one, 0 when there is none.
AnchorIndex(history, thr) ==
    LET last_time == history[Len(history)].t
        old == {i \in 1..Len(history) : last_time - history[i].t >= thr}
    IN  IF old = {} THEN 0 ELSE CHOOSE i \in old : \A j \in old : j <= i

\* A variant that excludes the boundary: distance_moved < threshold.
WithinThresholdStrict(distance_moved, thr) == distance_moved < thr

\* distance_moved <= self.distance_threshold
WithinThreshold(distance_moved, thr) == distance_moved <= thr

\* A variant of the decision that announces on every call, whether or not
\* the flag changes.
StationaryDecisionNoisy(states, node, was_stationary, distance_moved, span, tthr, dthr) ==
    IF distance_moved <= dthr
    THEN [is_now_stationary |-> TRUE,
          notification |-> <<[kind |-> "stationary_start",
                              node_id |-> node.node_id,
                              msg |-> StationaryMsg(node, tthr, distance_moved)]>>,
          states |-> DictPut(states, node.node_id, TRUE)]
    ELSE [is_now_stationary |-> FALSE,
          notification |-> <<[kind |-> "stationary_stop",
                              node_id |-> node.node_id,
                              msg |-> MovingMsg(node, distance_moved, span)]>>,
          states |-> DictPut(states, node.node_id, FALSE)]

\* A variant of the decision that announces the end of a stationary period
\* at every check that finds the node moved, whatever the stored flag.
StationaryDecisionEndsAgain(states, node, was_stationary, distance_moved, span, tthr, dthr) ==
    IF WithinThreshold(distance_moved, dthr)
    THEN [is_now_stationary |-> TRUE,
          notification |-> IF ~was_stationary
                           THEN <<[kind |-> "stationary_start",
                                   node_id |-> node.node_id,
                                   msg |-> StationaryMsg(node, tthr, distance_moved)]>>
                           ELSE <<>>,
          states |-> IF ~was_stationary
                     THEN DictPut(states, node.node_id, TRUE) ELSE states]
    ELSE [is_now_stationary |-> FALSE,
          notification |-> <<[kind |-> "stationary_stop",
                              node_id |-> node.node_id,
                              msg |-> MovingMsg(node, distance_moved, span)]>>,
          states |-> IF was_stationary
                     THEN DictPut(states, node.node_id, FALSE) ELSE states]

\* The notification decision of check_node_stationary once the distance is
\* known: the new flag dict and the message, if any.
StationaryDecision(states, node, was_stationary, distance_moved, span, tthr, dthr) ==
    IF WithinThreshold(distance_moved, dthr)
    THEN [is_now_stationary |-> TRUE,
          notification |-> IF ~was_stationary
                           THEN <<[kind |-> "stationary_start",
                                   node_id |-> node.node_id,
                                   msg |-> StationaryMsg(node, tthr, distance_moved)]>>
                           ELSE <<>>,
          states |-> IF ~was_stationary
                     THEN DictPut(states, node.node_id, TRUE) ELSE states]
    ELSE [is_now_stationary |-> FALSE,
          notification |-> IF was_stationary
                           THEN <<[kind |-> "stationary_stop",
                                   node_id |-> node.node_id,
                                   msg |-> MovingMsg(node, distance_moved, span)]>>
                           ELSE <<>>,
          states |-> IF was_stationary
                     THEN DictPut(states, node.node_id, FALSE) ELSE states]

\* A variant of the "cannot determine" exits that returns False without
\* touching the stored flag.
UndeterminedLeavesFlag(states, node, was_stationary) ==
    [is_now_stationary |-> FALSE,
     notification |-> <<>>,
     states |-> states]

\* A variant of the "cannot determine" exits that leaves the flag as it was.
UndeterminedKeepsFlag(states, node, was_stationary) ==
    [is_now_stationary |-> was_stationary,
     notification |-> <<>>,
     states |-> states]

\* The "cannot determine" exits of check_node_stationary: the flag is
\* cleared if it was set, nothing is announced.
Undetermined(states, node, was_stationary) ==
    [is_now_stationary |-> FALSE,
     notification |-> <<>>,
     states |-> IF was_stationary THEN DictPut(states, node.node_id, FALSE) ELSE states]

\* StationaryModule.check_node_stationary(node).
check_node_stationary(histories, states, node, tthr, dthr) ==
    LET history == DictGet(histories, node.node_id, <<>>)
        was_stationary == DictGet(states, node.node_id, FALSE)
    IN  IF Len(history) < 2
        THEN Undetermined(states, node, was_stationary)
        ELSE LET last == history[Len(history)]
                 a == AnchorIndex(history, tthr)
             IN  IF a = 0
                 THEN Undetermined(states, node, was_stationary)
                 ELSE LET distance_moved ==
                              calculate_distance_km(history[a].lat, history[a].lon,
                                                    last.lat, last.lon)
                      IN  IF distance_moved = INF
                          THEN Undetermined(states, node, was_stationary)
                          ELSE StationaryDecision(states, node, was_stationary,
                                                  distance_moved, last.t - history[a].t,
                                                  tthr, dthr)

\* StationaryModule.get_stationary_nodes()
get_stationary_nodes(states) == {id \in DOMAIN states : states[id]}

\* A variant of StaleNodes that takes a node whose newest sample is exactly
\* stale_threshold_seconds old as well.
StaleNodesAtThreshold(histories, clock, stale_threshold_seconds) ==
    {id \in DOMAIN histories :
        /\ histories[id] # <<>>
        /\ clock - histories[id][Len(histories[id])].t >= stale_threshold_seconds}

\* The stale_nodes list of cleanup_stale_nodes.
StaleNodes(histories, clock, stale_threshold_seconds) ==
    {id \in DOMAIN histories :
        /\ histories[id] # <<>>
        /\ clock - histories[id][Len(histories[id])].t > stale_threshold_seconds}

\* StationaryModule.cleanup_stale_nodes(stale_threshold_seconds): the
\* history and the flag of every stale node are popped.
cleanup_stale_nodes(histories, states, clock, stale_threshold_seconds) ==
    LET stale_nodes == StaleNodes(histories, clock, stale_threshold_seconds)
    IN  [histories |-> [id \in (DOMAIN histories) \ stale_nodes |-> histories[id]],
         states |-> [id \in (DOMAIN states) \ stale_nodes |-> states[id]]]

\* ---------------------------------------------------------------- notification
\* A variant of the cooldown test that lets a message through at exactly
\* the cooldown.
can_notify_at_cooldown(ledger, event_key, clock) ==
    clock - DictGet(ledger, event_key, 0) >= NOTIFICATION_COOLDOWN

\* NotificationModule._can_notify(event_key)
can_notify(ledger, event_key, clock) ==
    clock - DictGet(ledger, event_key, 0) > NOTIFICATION_COOLDOWN

\* NotificationModule.send_text_notification(message, event_key, force):
\* whether the message is handed to send_meshtastic_text, and the ledger after.
send_text_notification(ledger, event_key, force, clock) ==
    IF can_notify(ledger, event_key, clock) \/ force
    THEN [dispatched |-> TRUE, ledger |-> DictPut(ledger, event_key, clock)]
    ELSE [dispatched |-> FALSE, ledger |-> ledger]

\* ---------------------------------------------------------------- event keys
\* periodic_check_loop: the cooldown key derived from a geofence message,
\* the i-th (from 0) of the messages check_node returned.
GeofenceEventKey(msg, node_id, i) ==
    LET event_type == IF "entered" \in Range(msg)
                      THEN "geofence_enter" ELSE "geofence_exit"
        parts == Split(msg, "'")
        fence_name_guess == IF Len(parts) > 1 THEN parts[2]
                            ELSE <<"unknown", ToString(i)>>
    IN  <<event_type, "_", node_id, "_">> \o fence_name_guess

\* periodic_check_loop: the cooldown key derived from a stationary message.
StationaryEventKey(msg, node_id) ==
    LET event_type == IF "has been stationary" \in Range(msg)
                      THEN "stationary_start" ELSE "stationary_stop"
    IN  <<event_type, "_", node_id>>

\* meshtastic_utils.send_meshtastic_text(interface, message): it returns
\* early without a connection, the message dropped; otherwise
\* private_channel_psk.strip() is evaluated outside any try block and raises
\* AttributeError for a value that is not a string; otherwise the message
\* is handed to interface.sendText.
send_meshtastic_text(is_connected, psk) ==
    IF ~is_connected THEN "dropped"
    ELSE IF psk[1] # "str" THEN "raised"
    ELSE "sent"

\* The messages of one engine call sent through the throttle in order, each
\* followed by its queue put: the ledger after, for each message handled
\* whether it was handed to send_meshtastic_text, how many messages reached
\* their queue put, and whether send_meshtastic_text raised (which ends the
\* loop before the ledger update and the queue put of that message).
RECURSIVE SendAll(_, _, _, _)
SendAll(ledger, keys, clock, raises) ==
    IF keys = <<>>
    THEN [ledger |-> ledger, dispatched |-> <<>>, done |-> 0, raised |-> FALSE]
    ELSE LET first == send_text_notification(ledger, Head(keys), FALSE, clock)
         IN  IF first.dispatched /\ raises
             THEN [ledger |-> ledger, dispatched |-> <<TRUE>>, done |-> 0,
                   raised |-> TRUE]
             ELSE LET rest == SendAll(first.ledger, Tail(keys), clock, raises)
                  IN  [ledger |-> rest.ledger,
                       dispatched |-> <<first.dispatched>> \o rest.dispatched,
                       done |-> 1 + rest.done,
                       raised |-> rest.raised]


\* ---------------------------------------------------------------- threads
\* The four locks shared between the threads.
Locks == {"connection_status_lock", "my_node_info_lock", "node_db_lock", "config_lock"}
NoOwner == "free"

\* The threads that take them: the mesh library's callbacks on_connection
\* ("conn") and on_receive ("recv"), taken to be able to run at the same
\* time, gps_update_loop, periodic_check_loop and a request of the web server.
Threads == {"conn", "recv", "gps", "check", "web"}

\* The threads main() starts and joins besides the periodic check, whose
\* position is pc.
BackgroundThreads == {"gps", "web"}

\* ---------------------------------------------------------------- state
VARIABLES
    now,                      \* time.time()
    config,                   \* the global AppConfig object (core/config.py)
    config_reload_event,      \* main.config_reload_event (threading.Event)
    timers,                   \* pending threading.Timer(2.0, clear) of config_page
    node_db,                  \* meshtastic_utils.node_db, in insertion order
    connected,                \* connection_status["connected"]
    my_node_info,             \* node id of meshtastic_utils.my_node_info, or "none"
    gps,                      \* gps_module.get_location(): <<lat, lon>>
    geofences,                \* GeofenceModule.geofences
    nodes_inside,             \* GeofenceModule._nodes_inside
    time_threshold,           \* StationaryModule.time_threshold
    distance_threshold,       \* StationaryModule.distance_threshold
    node_location_history,    \* stationary.node_location_history
    node_stationary_state,    \* stationary.node_stationary_state
    last_notification_time,   \* notification.last_notification_time
    notification_queue,       \* main.notification_queue
    pc,                       \* where periodic_check_loop stands
    nodes_to_check,           \* its snapshot list (node ids of the captured objects)
    local_pos,                \* its local_lat, local_lon
    closest_node_dist,        \* its closest_node_dist
    last_stale_cleanup_time,  \* its last_stale_cleanup_time
    led,                      \* the value last passed to update_led_proximity
    stop_event,               \* main.stop_event (threading.Event)
    lock_owner,               \* per threading.Lock, the thread holding it, or "free"
    todo,                     \* per thread, the lock operations its handler has left
    main_at,                  \* where main() stands
    thread_state,             \* per background thread: starting, running or ended
    interface_closed,         \* meshtastic_interface.close() was called
    web,                      \* the web thread's request in progress: where it
                              \* stands in get_nodes_inside_summary
    ret,                      \* what the engine call of the last loop step returned
    checked                   \* history: per node, the position check_node last saw,
                              \* the membership it stored, and whether the fences
                              \* were reloaded since

clockVars == <<now>>
cfgVars == <<config, config_reload_event, timers>>
dbVars == <<node_db, connected, my_node_info, gps>>
geoVars == <<geofences, nodes_inside>>
thrVars == <<time_threshold, distance_threshold>>
statVars == <<node_location_history, node_stationary_state>>
notifVars == <<last_notification_time, notification_queue>>
loopVars == <<pc, nodes_to_check, local_pos, closest_node_dist,
              last_stale_cleanup_time, led>>
webVars == <<web>>
stopVars == <<stop_event>>
lockVars == <<lock_owner, todo>>
mainVars == <<main_at, thread_state, interface_closed>>
obsVars == <<ret, checked>>
vars == <<clockVars, cfgVars, dbVars, geoVars, thrVars, statVars, notifVars,
          loopVars, webVars, stopVars, lockVars, mainVars, obsVars>>

\* ---------------------------------------------------------------- gps
\* GPSModule._read_loop parsed a GGA sentence with a fix: the position is
\* stored, unless both values are zero, which counts as no fix and clears it.
gps_read(lat, lon) ==
    /\ gps' = IF lat # 0 \/ lon # 0 THEN <<lat, lon>> ELSE <<None, None>>
    /\ UNCHANGED <<node_db, connected, my_node_info>>
    /\ UNCHANGED <<clockVars, stopVars, lockVars, mainVars, cfgVars, webVars, geoVars, thrVars, statVars, notifVars,
                   loopVars, obsVars>>

\* ---------------------------------------------------------------- node_db
DbIds(db) == {db[i].node_id : i \in 1..Len(db)}
DbIndex(db, id) == CHOOSE i \in 1..Len(db) : db[i].node_id = id
DbGet(db, id) == db[DbIndex(db, id)]
\* node_db[id] = NodeInfo(node_id=id) when id is new
DbEnsure(db, id) == IF id \in DbIds(db) THEN db ELSE Append(db, NodeInfo(id))
DbSet(db, id, node) == [db EXCEPT ![DbIndex(db, id)] = node]

\* ---------------------------------------------------------------- inputs
LocalId == "me"

A == <<"A">>
B == <<"B">>
OA == <<"O", "'", "A">>
OB == <<"O", "'", "B">>

\* Fence lists a configuration file or the configuration form can hold.
NoFences == <<>>
TwoFences == <<GeofenceConfig(A, 0, 0, 1), GeofenceConfig(B, 1, 1, 1)>>
SameName == <<GeofenceConfig(A, 0, 0, 1), GeofenceConfig(A, 1, 1, 1)>>
Quoted == <<GeofenceConfig(OA, 0, 0, 1), GeofenceConfig(OB, 1, 1, 1)>>

\* private_channel_psk values: the type yaml.safe_load gave the value, and
\* its text.  AppConfig.load passes the value on as it is.
TextPsk == <<"str", "changeme">>
NumericPsk == <<"int", "1234">>

AppConfig(tthr, dthr, fences) ==
    [stationary_time_threshold |-> tthr,
     stationary_distance_threshold |-> dthr,
     geofences |-> fences,
     private_channel_psk |-> TextPsk]

\* A variant of IsValidPos that takes the origin for a position.
IsValidPosWithOrigin(lat, lon) ==
    /\ lat # None /\ lon # None
    /\ lat \in 0..1 /\ lon \in 0..1

\* process_position_packet: the basic validity check of a reported position
\* (the grid's range stands for -90..90 / -180..180).
IsValidPos(lat, lon) ==
    /\ lat # None /\ lon # None
    /\ lat \in 0..1 /\ lon \in 0..1
    /\ (lat # 0 \/ lon # 0)


\* ---------------------------------------------------------------- environment
\* The clock moves on by d seconds.
AdvancesOf(t) == (t - StartTime) \div 60
Advance(d) ==
    /\ AdvancesOf(now) < MaxAdvances
    /\ now' = now + d
    /\ UNCHANGED <<stopVars, lockVars, mainVars, cfgVars, dbVars, webVars, geoVars, thrVars, statVars, notifVars,
                   loopVars, obsVars>>

\* meshtastic_utils.on_receive(packet) from node id, and the process_*_packet
\* handler its portnum selects.
on_receive(id, portnum, lat, lon, name) ==
    LET db1 == DbEnsure(node_db, id)
        heard == [DbGet(db1, id) EXCEPT !.last_heard = now]
        node == CASE portnum = "NODEINFO_APP" -> [heard EXCEPT !.name = name]
                  [] portnum = "POSITION_APP" /\ IsValidPos(lat, lon) ->
                         [heard EXCEPT !.latitude = lat, !.longitude = lon]
                  [] OTHER -> heard
    IN  /\ node_db' = DbSet(db1, id, node)
        /\ UNCHANGED <<connected, my_node_info, gps>>
        /\ UNCHANGED <<clockVars, stopVars, lockVars, mainVars, cfgVars, webVars, geoVars, thrVars, statVars, notifVars,
                       loopVars, obsVars>>

\* web.app.config_page, POST of a valid form: the global config is replaced
\* and, if a reloadable setting changed, the reload event is set and a timer
\* is started that clears it 2 s later.
config_page(new) ==
    /\ timers < MaxTimers
    /\ config' = new
    /\ IF new # config
       THEN config_reload_event' = TRUE /\ timers' = timers + 1
       ELSE UNCHANGED <<config_reload_event, timers>>
    /\ UNCHANGED <<clockVars, stopVars, lockVars, mainVars, dbVars, webVars, geoVars, thrVars, statVars, notifVars,
                   loopVars, obsVars>>

\* The timer of config_page fires: _config_reload_event.clear()
ClearReloadEvent ==
    /\ timers > 0
    /\ timers' = timers - 1
    /\ config_reload_event' = FALSE
    /\ UNCHANGED <<config, clockVars, stopVars, lockVars, mainVars, dbVars, webVars, geoVars, thrVars, statVars, notifVars,
                   loopVars, obsVars>>

\* web.app._update_notifications_from_queue: every queued item is taken.
update_notifications_from_queue ==
    /\ notification_queue # <<>>
    /\ notification_queue' = <<>>
    /\ UNCHANGED <<last_notification_time, clockVars, stopVars, lockVars, mainVars, cfgVars, dbVars, webVars, geoVars,
                   thrVars, statVars, loopVars, obsVars>>

\* A variant of get_nodes_inside_summary that has keys only for the fences
\* some node is inside.
SummaryOfOccupied(fences, inside) ==
    [name \in {n \in {fences[i].name : i \in DOMAIN fences} :
                  \E id \in DOMAIN inside : n \in inside[id]} |->
        {id \in DOMAIN inside : name \in inside[id]}]

\* GeofenceModule.get_nodes_inside_summary(): one key per name of the fence
\* list, and under a name the ids of the nodes whose membership set holds it
\* (as a set: the order of the list is the dict's iteration order).
get_nodes_inside_summary(fences, inside) ==
    [name \in {fences[i].name : i \in DOMAIN fences} |->
        {id \in DOMAIN inside : name \in inside[id]}]

\* The web thread between requests.
WebIdle == [pc |-> "idle", size |-> 0, todo |-> <<>>, summary |-> EmptyDict,
            error |-> FALSE]

\* web/app.py index() and api_status() call get_nodes_inside_summary() in
\* the web thread, holding no lock.  The call builds the keys from
\* self.geofences and starts iterating self._nodes_inside.items(); the
\* iterator remembers the size of the dict.
summary_begin ==
    /\ web.pc = "idle"
    /\ \E order \in Orders(DOMAIN nodes_inside) :
           web' = [pc |-> "iter",
                   size |-> Cardinality(DOMAIN nodes_inside),
                   todo |-> order,
                   summary |-> get_nodes_inside_summary(geofences, EmptyDict),
                   error |-> FALSE]
    /\ UNCHANGED <<clockVars, stopVars, lockVars, mainVars, cfgVars, dbVars, geoVars, thrVars, statVars,
                   notifVars, loopVars, obsVars>>

\* One step of that iteration.  The dict iterator raises RuntimeError
\* ("dictionary changed size during iteration") when the size differs from
\* the one it remembers, and the request fails; an entry that is gone is
\* passed over; otherwise the node id is appended under each of its fence
\* names that is a key of the summary.  After the last entry the summary is
\* returned.
summary_next ==
    /\ web.pc = "iter"
    /\ web' =
         IF Cardinality(DOMAIN nodes_inside) # web.size
         THEN [WebIdle EXCEPT !.error = TRUE]
         ELSE IF web.todo = <<>>
         THEN [web EXCEPT !.pc = "idle"]
         ELSE LET node_id == Head(web.todo)
                  names == DictGet(nodes_inside, node_id, {})
              IN  [web EXCEPT
                     !.todo = Tail(web.todo),
                     !.summary = [name \in DOMAIN web.summary |->
                                     IF name \in names
                                     THEN web.summary[name] \cup {node_id}
                                     ELSE web.summary[name]]]
    /\ UNCHANGED <<clockVars, stopVars, lockVars, mainVars, cfgVars, dbVars, geoVars, thrVars, statVars,
                   notifVars, loopVars, obsVars>>

\* ---------------------------------------------------------------- periodic_check_loop
\* No engine call has returned in this iteration.
NoReturn == [op |-> "none", node_id |-> "none", events |-> <<>>, keys |-> <<>>,
             dispatched |-> <<>>, flag |-> FALSE, repeat |-> FALSE, was |-> FALSE, raised |-> FALSE]

\* A variant of ReloadedFences that keeps the list the engine has.
ReloadedFencesKept == geofences

\* GeofenceModule.reload_geofences(): the list is taken from the config.
ReloadedFences == config.geofences

\* A variant of ClearedMembership that keeps what the engine has stored.
ClearedMembershipKept(inside) == inside

\* GeofenceModule.reload_geofences(): self._nodes_inside.clear().
ClearedMembership(inside) == EmptyDict

\* A variant of LoopGoesOn that never looks at the stop signal.
LoopGoesOnRegardless == TRUE

\* while not stop_event.is_set(): the test at the top of the loop, reached
\* from each of its waits (stop_event.wait returns at once when the event
\* is set).
LoopGoesOn == ~stop_event

\* Loop top, "Config Reload Check": with the event set, the thresholds are
\* copied from config and the geofences reloaded (membership cleared).
ConfigSync ==
    /\ pc = "top"
    /\ LoopGoesOn
    /\ pc' = "main"
    /\ IF config_reload_event
       THEN /\ time_threshold' = config.stationary_time_threshold
            /\ distance_threshold' = config.stationary_distance_threshold
            /\ geofences' = ReloadedFences
            /\ nodes_inside' = ClearedMembership(nodes_inside)
            /\ checked' = [id \in DOMAIN checked |->
                               [checked[id] EXCEPT !.reloaded = TRUE]]
       ELSE UNCHANGED <<geoVars, thrVars, checked>>
    /\ UNCHANGED <<nodes_to_check, local_pos, closest_node_dist,
                   last_stale_cleanup_time, led>>
    /\ UNCHANGED <<clockVars, stopVars, lockVars, mainVars, cfgVars, dbVars, webVars, statVars, notifVars, ret>>

\* A NodeInfo reference that is None.
NoNodeInfo == "None"

\* meshtastic_utils.on_connection: "established" sets the connected flag and
\* refreshes the local node info (update_my_node_info, which also writes the
\* name and the last-heard time of the local entry of node_db); any other
\* status clears both.
on_connection(status) ==
    /\ connected' = (status = "established")
    /\ my_node_info' = IF status = "established" THEN LocalId ELSE NoNodeInfo
    /\ node_db' = IF status = "established"
                  THEN LET db1 == DbEnsure(node_db, LocalId)
                       IN  DbSet(db1, LocalId,
                                 [DbGet(db1, LocalId) EXCEPT !.name = <<"Me">>,
                                                             !.last_heard = now])
                  ELSE node_db
    /\ UNCHANGED <<gps>>
    /\ UNCHANGED <<clockVars, stopVars, lockVars, mainVars, cfgVars, webVars, geoVars, thrVars, statVars,
                   notifVars, loopVars, obsVars>>

\* main.py's own name my_node_info: "from .core.meshtastic_utils import
\* my_node_info" binds it, when main is imported, to the value the name has
\* in meshtastic_utils at that time (None, meshtastic_utils.py line 23);
\* update_my_node_info and on_connection rebind the name of meshtastic_utils
\* only, and main never assigns its own.
main_my_node_info == NoNodeInfo

\* my_id = my_node_info.node_id if my_node_info else None, and
\* nodes_to_check = [node for node in node_db.values() if node.node_id != my_id]
Snapshot(db, my_id) ==
    LET ids == [i \in 1..Len(db) |-> db[i].node_id]
    IN  SelectSeq(ids, LAMBDA id : id # my_id)

\* One iteration of main.gps_update_loop: with a fix, the position is written
\* to the local entry of node_db, if main's my_node_info names one, and sent
\* to the mesh when connected (ret.keys records what was sent).
gps_update_loop ==
    LET latitude == gps[1]
        longitude == gps[2]
        local_node_id == main_my_node_info
        fix == latitude # None /\ longitude # None
    IN  /\ node_db' = IF fix /\ local_node_id # NoNodeInfo
                            /\ local_node_id \in DbIds(node_db)
                      THEN DbSet(node_db, local_node_id,
                                 [DbGet(node_db, local_node_id)
                                     EXCEPT !.latitude = latitude,
                                            !.longitude = longitude])
                      ELSE node_db
        /\ ret' = [NoReturn EXCEPT !.op = "gps_update_loop",
                                   !.keys = IF fix /\ connected
                                            THEN <<latitude, longitude>> ELSE <<>>]
        /\ UNCHANGED <<connected, my_node_info, gps, checked>>
        /\ UNCHANGED <<clockVars, stopVars, lockVars, mainVars, cfgVars, webVars, geoVars, thrVars, statVars,
                       notifVars, loopVars>>

\* A variant of NodeBodyStart in which the body of the for loop starts at
\* the geofence check, without the call of update_node_location.
NodeBodyStartAtCheck == "fence"

\* The first statement of the for loop's body: update_node_location(node),
\* before the geofence check and the stationary check.
NodeBodyStart == "update"

\* "Main Check Logic" up to the snapshot: without a connection the loop waits
\* and starts over.
BeginCheck ==
    /\ pc = "main"
    /\ IF ~connected
       THEN /\ pc' = "top"
            /\ UNCHANGED <<nodes_to_check, local_pos, closest_node_dist>>
       ELSE /\ local_pos' = gps
            /\ closest_node_dist' = INF
            /\ nodes_to_check' = Snapshot(node_db, main_my_node_info)
            /\ pc' = IF nodes_to_check' = <<>> THEN "finish" ELSE NodeBodyStart
    /\ UNCHANGED <<last_stale_cleanup_time, led>>
    /\ UNCHANGED <<clockVars, stopVars, lockVars, mainVars, cfgVars, dbVars, webVars, geoVars, thrVars, statVars,
                   notifVars, obsVars>>

\* Whether a message dispatched now makes send_meshtastic_text raise: the
\* call reads the live connection status and the live config.
SendRaises == send_meshtastic_text(connected, config.private_channel_psk) = "raised"

\* A variant of AfterException in which an exception that leaves the tick
\* body ends the loop's thread.
AfterExceptionDead == "dead"

\* periodic_check_loop's "except Exception" around the tick body: the error
\* is logged, stop_event.wait(15), and the while loop goes round again.
AfterException == "top"

\* The node object the loop is at (the snapshot holds the node_db objects).
CurrentNode == DbGet(node_db, Head(nodes_to_check))

\* stationary_module.update_node_location(node); ret.keys holds the
\* latitude and longitude the call read from the node object.
UpdateLocation ==
    /\ pc = "update"
    /\ pc' = "fence"
    /\ node_location_history' =
           update_node_location(node_location_history, CurrentNode, now)
    /\ ret' = [op |-> "update_node_location", node_id |-> CurrentNode.node_id,
               events |-> <<>>,
               keys |-> <<CurrentNode.latitude, CurrentNode.longitude>>,
               dispatched |-> <<>>, flag |-> FALSE,
               repeat |-> FALSE, was |-> FALSE, raised |-> FALSE]
    /\ UNCHANGED <<node_stationary_state, nodes_to_check, local_pos,
                   closest_node_dist, last_stale_cleanup_time, led, checked>>
    /\ UNCHANGED <<clockVars, stopVars, lockVars, mainVars, cfgVars, dbVars, webVars, geoVars, thrVars, notifVars>>

\* A variant that queues only the first message of a call.
QueueItemsFirstOnly(type, events) ==
    [i \in 1..(IF events = <<>> THEN 0 ELSE 1) |->
        [type |-> type, message |-> events[i].msg, node_id |-> events[i].node_id]]

\* notification_queue.put({"type": ..., "message": msg, "node_id": ...})
QueueItems(type, events) ==
    [i \in 1..Len(events) |->
        [type |-> type, message |-> events[i].msg, node_id |-> events[i].node_id]]

\* History: the previous check_node of this node saw the position it has
\* now, and the fences were not reloaded since.
SeenHereBefore(node) ==
    /\ node.node_id \in DOMAIN checked
    /\ checked[node.node_id].latitude = node.latitude
    /\ checked[node.node_id].longitude = node.longitude
    /\ ~checked[node.node_id].reloaded

\* geofence_module.check_node(node), and each message through the throttle
\* and onto the web queue.
GeofenceCheck ==
    /\ pc = "fence"
    /\ \E order \in Orders(ExitSet(geofences, nodes_inside, CurrentNode)) :
         LET r == check_node(geofences, nodes_inside, CurrentNode, order)
             keys == [i \in 1..Len(r.notifications) |->
                         GeofenceEventKey(r.notifications[i].msg,
                                          CurrentNode.node_id, i - 1)]
             s == SendAll(last_notification_time, keys, now, SendRaises)
         IN  /\ Len(notification_queue) + Len(r.notifications) <= MaxQueue
             /\ nodes_inside' = r.inside
             /\ last_notification_time' = s.ledger
             /\ notification_queue' =
                    notification_queue
                    \o QueueItems("geofence", SubSeq(r.notifications, 1, s.done))
             /\ pc' = IF s.raised THEN AfterException ELSE "stat"
             /\ nodes_to_check' = IF s.raised THEN <<>> ELSE nodes_to_check
             /\ ret' = [op |-> "check_node", node_id |-> CurrentNode.node_id,
                        events |-> r.notifications, keys |-> keys,
                        dispatched |-> s.dispatched, flag |-> FALSE,
                        repeat |-> SeenHereBefore(CurrentNode), was |-> FALSE,
                        raised |-> s.raised]
    /\ checked' = DictPut(checked, CurrentNode.node_id,
                          [latitude |-> CurrentNode.latitude,
                           longitude |-> CurrentNode.longitude,
                           inside |-> DictGet(nodes_inside', CurrentNode.node_id, {}),
                           reloaded |-> FALSE])
    /\ UNCHANGED <<geofences, local_pos, closest_node_dist,
                   last_stale_cleanup_time, led>>
    /\ UNCHANGED <<clockVars, stopVars, lockVars, mainVars, cfgVars, dbVars, webVars, thrVars, statVars>>

\* A variant of CloserOf that keeps the distance of the node evaluated last.
CloserOfLast(distance, closest) == distance

\* if distance < closest_node_dist: closest_node_dist = distance
CloserOf(distance, closest) == IF distance < closest THEN distance ELSE closest

\* stationary_module.check_node_stationary(node), its message through the
\* throttle and onto the web queue, and the distance to the local position.
StationaryCheck ==
    /\ pc = "stat"
    /\ LET r == check_node_stationary(node_location_history, node_stationary_state,
                                      CurrentNode, time_threshold, distance_threshold)
           keys == [i \in 1..Len(r.notification) |->
                       StationaryEventKey(r.notification[i].msg, CurrentNode.node_id)]
           s == SendAll(last_notification_time, keys, now, SendRaises)
           distance == calculate_distance_km(local_pos[1], local_pos[2],
                                             CurrentNode.latitude, CurrentNode.longitude)
       IN  /\ Len(notification_queue) + Len(r.notification) <= MaxQueue
           /\ node_stationary_state' = r.states
           /\ last_notification_time' = s.ledger
           /\ notification_queue' =
                  notification_queue
                  \o QueueItems("stationary", SubSeq(r.notification, 1, s.done))
           /\ closest_node_dist' =
                  IF ~s.raised /\ local_pos[1] # None /\ local_pos[2] # None
                  THEN CloserOf(distance, closest_node_dist)
                  ELSE closest_node_dist
           /\ nodes_to_check' = IF s.raised THEN <<>> ELSE Tail(nodes_to_check)
           /\ pc' = IF s.raised THEN AfterException
                    ELSE IF nodes_to_check' = <<>> THEN "finish" ELSE NodeBodyStart
           /\ ret' = [op |-> "check_node_stationary", node_id |-> CurrentNode.node_id,
                      events |-> r.notification, keys |-> keys,
                      dispatched |-> s.dispatched, flag |-> r.is_now_stationary,
                      repeat |-> FALSE,
                      was |-> DictGet(node_stationary_state, CurrentNode.node_id, FALSE),
                      raised |-> s.raised]
    /\ UNCHANGED <<node_location_history, local_pos, last_stale_cleanup_time, led,
                   checked>>
    /\ UNCHANGED <<clockVars, stopVars, lockVars, mainVars, cfgVars, dbVars, webVars, geoVars, thrVars>>

\* After the nodes: the LED update, the occasional stale cleanup, the wait.
FinishCheck ==
    /\ pc = "finish"
    /\ pc' = "top"
    /\ led' = IF closest_node_dist # INF THEN closest_node_dist ELSE None
    /\ IF now - last_stale_cleanup_time > CLEANUP_PERIOD
       THEN LET r == cleanup_stale_nodes(node_location_history,
                                         node_stationary_state, now, STALE_THRESHOLD)
            IN  /\ node_location_history' = r.histories
                /\ node_stationary_state' = r.states
                /\ last_stale_cleanup_time' = now
       ELSE UNCHANGED <<statVars, last_stale_cleanup_time>>
    /\ ret' = NoReturn
    /\ UNCHANGED <<nodes_to_check, local_pos, closest_node_dist, checked>>
    /\ UNCHANGED <<clockVars, stopVars, lockVars, mainVars, cfgVars, dbVars, webVars, geoVars, thrVars, notifVars>>


\* ---------------------------------------------------------------- specification
\* The state when periodic_check_loop starts: the modules are constructed
\* from the loaded config, the mesh is connected and the local node known.
InitWith(cfg) ==
    /\ now = StartTime
    /\ config = cfg
    /\ config_reload_event = FALSE
    /\ timers = 0
    /\ node_db = <<[NodeInfo(LocalId) EXCEPT !.name = <<"Me">>, !.last_heard = StartTime]>>
    /\ connected = TRUE
    /\ my_node_info = LocalId
    /\ gps = <<None, None>>
    /\ geofences = cfg.geofences
    /\ nodes_inside = EmptyDict
    /\ time_threshold = cfg.stationary_time_threshold
    /\ distance_threshold = cfg.stationary_distance_threshold
    /\ node_location_history = EmptyDict
    /\ node_stationary_state = EmptyDict
    /\ last_notification_time = EmptyDict
    /\ notification_queue = <<>>
    /\ pc = "top"
    /\ nodes_to_check = <<>>
    /\ local_pos = <<None, None>>
    /\ closest_node_dist = INF
    /\ last_stale_cleanup_time = StartTime
    /\ led = None
    /\ stop_event = FALSE
    /\ lock_owner = [l \in Locks |-> NoOwner]
    /\ todo = [t \in Threads |-> <<>>]
    /\ main_at = "monitor"
    /\ thread_state = [t \in BackgroundThreads |-> "starting"]
    /\ interface_closed = FALSE
    /\ web = WebIdle
    /\ ret = NoReturn
    /\ checked = EmptyDict

\* The while test fails: periodic_check_loop logs and returns, and its
\* thread ends.
LoopExit ==
    /\ pc = "top"
    /\ ~LoopGoesOn
    /\ pc' = "done"
    /\ UNCHANGED <<nodes_to_check, local_pos, closest_node_dist,
                   last_stale_cleanup_time, led>>
    /\ UNCHANGED <<clockVars, stopVars, lockVars, mainVars, cfgVars, dbVars, webVars, geoVars, thrVars,
                   statVars, notifVars, obsVars>>

\* shutdown_handler (SIGINT, SIGTERM), and main's finally: stop_event.set()
shutdown_handler ==
    /\ stop_event' = TRUE
    /\ UNCHANGED <<clockVars, lockVars, mainVars, cfgVars, dbVars, webVars, geoVars,
                   thrVars, statVars, notifVars, loopVars, obsVars>>

Loop ==
    \/ ConfigSync
    \/ BeginCheck
    \/ UpdateLocation
    \/ GeofenceCheck
    \/ StationaryCheck
    \/ FinishCheck

\* --- geofence evaluation: a remote node moves over the grid while the
\* fence list is edited; the clock stands still.
GeoConfigs ==
    {AppConfig(60, 1, f) : f \in {TwoFences, SameName, Quoted}}
GeoPositions == {<<0, 1>>, <<1, 1>>, <<2, 2>>, <<None, None>>}

InitGeo == \E cfg \in GeoConfigs : InitWith(cfg)

NextGeo ==
    \/ Loop
    \/ \E p \in GeoPositions : on_receive("n1", "POSITION_APP", p[1], p[2], <<>>)
    \/ \E c \in GeoConfigs : config_page(c)
    \/ ClearReloadEvent
    \/ update_notifications_from_queue

SpecGeo == InitGeo /\ [][NextGeo]_vars

\* --- stationary detection: a remote node moves while the clock runs and
\* the thresholds are edited; there are no fences.
StatConfigs == {AppConfig(60, 1, NoFences), AppConfig(61, 1, NoFences),
                AppConfig(60, 0, NoFences)}
StatPositions == {<<0, 1>>, <<1, 1>>}

InitStat == \E cfg \in StatConfigs : InitWith(cfg)

NextStat ==
    \/ Loop
    \/ Advance(60)
    \/ \E p \in StatPositions : on_receive("n1", "POSITION_APP", p[1], p[2], <<>>)
    \/ \E c \in StatConfigs : config_page(c)
    \/ ClearReloadEvent
    \/ update_notifications_from_queue

SpecStat == InitStat /\ [][NextStat]_vars

\* --- a node that reports the same coordinates in every packet, the packets
\* arriving between two iterations of the loop, while the clock runs.
StillReport == pc = "top" /\ on_receive("n1", "POSITION_APP", 0, 1, <<>>)

InitStill == \E cfg \in StatConfigs : InitWith(cfg)

NextStill ==
    \/ Loop
    \/ \E d \in {60, 61} : Advance(d)
    \/ StillReport

SpecStill == InitStill /\ [][NextStill]_vars

\* --- the throttle called directly, with and without force.
ThrottleKeys == {<<"geofence_enter", "_", "n1", "_", "A">>,
                 <<"geofence_exit", "_", "n1", "_", "A">>,
                 <<"stationary_start", "_", "n1">>}

\* notification_module.send_text_notification(message, event_key, force)
Notify(event_key, force) ==
    LET s == send_text_notification(last_notification_time, event_key, force, now)
    IN  /\ last_notification_time' = s.ledger
        /\ ret' = [op |-> "send_text_notification", node_id |-> "",
                   events |-> <<>>, keys |-> <<event_key>>,
                   dispatched |-> <<s.dispatched>>, flag |-> force,
                   repeat |-> FALSE, was |-> FALSE, raised |-> FALSE]
        /\ UNCHANGED <<notification_queue, checked>>
        /\ UNCHANGED <<clockVars, stopVars, lockVars, mainVars, cfgVars, dbVars, webVars, geoVars, thrVars, statVars, loopVars>>

InitThrottle == InitWith(AppConfig(60, 1, NoFences))

NextThrottle ==
    \/ \E d \in {60, 61} : Advance(d)
    \/ \E k \in ThrottleKeys, force \in BOOLEAN : Notify(k, force)

SpecThrottle == InitThrottle /\ [][NextThrottle]_vars

\* --- the whole loop: a remote node moves among two fences while the
\* clock runs and the web interface drains the queue.
Configs == {AppConfig(60, 1, TwoFences)}
Positions == {<<0, 1>>, <<1, 0>>, <<1, 1>>}

Init == \E cfg \in Configs : InitWith(cfg)

Next ==
    \/ Loop
    \/ Advance(60)
    \/ \E p \in Positions : on_receive("n1", "POSITION_APP", p[1], p[2], <<>>)
    \/ update_notifications_from_queue

Spec == Init /\ [][Next]_vars

\* ================================================================ claims
\* The loop step that calls geofence_module.check_node(node).
GeofenceStep == pc = "fence" /\ pc' = "stat"
\* The loop step that calls stationary_module.check_node_stationary(node).
StationaryStep == pc = "stat" /\ pc' # "stat"

PositionKnown(node) == node.latitude # None /\ node.longitude # None

\* The names of the fences of `fences` whose distance from the node is at
\* most their radius.
NamesWithin(fences, node) ==
    {fences[i].name : i \in {j \in 1..Len(fences) :
        calculate_distance_km(node.latitude, node.longitude,
                              fences[j].latitude, fences[j].longitude)
            <= fences[j].radius_km}}

\* How many of the events are of this kind for this fence name.
CountEvents(events, kind, fence_name) ==
    Cardinality({i \in 1..Len(events) :
                    events[i].kind = kind /\ events[i].fence = fence_name})

FenceNamesOf(fences) == {fences[i].name : i \in 1..Len(fences)}

\* C1: after check_node on a node with a known position, the membership
\* stored for the node is exactly the set of active fence names whose
\* distance is <= the radius (the boundary counts as inside), whatever the
\* membership was before.
C1_MembershipRecomputed ==
    [][GeofenceStep /\ PositionKnown(CurrentNode)
         => DictGet(nodes_inside', CurrentNode.node_id, {})
                = NamesWithin(geofences, CurrentNode)]_vars

\* C1 witness: a check has just stored a membership that differs from the
\* one before it (an exit was announced) and holds a fence the node is
\* exactly on the boundary of.
C1_Witness ==
    /\ pc = "stat" /\ ret.op = "check_node"
    /\ \E i \in 1..Len(ret.events) : ret.events[i].kind = "exited"
    /\ \E i \in 1..Len(geofences) :
          /\ geofences[i].name \in DictGet(nodes_inside, ret.node_id, {})
          /\ calculate_distance_km(CurrentNode.latitude, CurrentNode.longitude,
                                   geofences[i].latitude, geofences[i].longitude)
                = geofences[i].radius_km

\* C2: on a node with a known position, check_node emits one Enter for each
\* fence name in currentlyInside \ previouslyInside, one Exit for each in
\* previouslyInside \ currentlyInside, and nothing else.
C2_EventsAreTheDifference ==
    [][GeofenceStep /\ PositionKnown(CurrentNode)
         => LET previously == DictGet(nodes_inside, CurrentNode.node_id, {})
                currently == NamesWithin(geofences, CurrentNode)
                names == FenceNamesOf(geofences) \cup previously
                            \cup {ret'.events[i].fence : i \in 1..Len(ret'.events)}
            IN  \A n \in names :
                  /\ CountEvents(ret'.events, "entered", n)
                        = IF n \in currently \ previously THEN 1 ELSE 0
                  /\ CountEvents(ret'.events, "exited", n)
                        = IF n \in previously \ currently THEN 1 ELSE 0]_vars

\* History: the previous check_node of this node saw the position it has now.
SamePositionAsLastCheck(node) ==
    /\ node.node_id \in DOMAIN checked
    /\ checked[node.node_id].latitude = node.latitude
    /\ checked[node.node_id].longitude = node.longitude

NoEventFor(events, fence_name) ==
    \A i \in 1..Len(events) : events[i].fence # fence_name

HasKind(events, kind) == \E i \in 1..Len(events) : events[i].kind = kind

\* The samples of a history at least thr seconds older than its last one.
OldEnough(history, thr) ==
    {i \in 1..Len(history) : history[Len(history)].t - history[i].t >= thr}

\* The displacement between the most recent old-enough sample and the last.
Displacement(history, thr) ==
    LET a == CHOOSE i \in OldEnough(history, thr) :
                 \A j \in OldEnough(history, thr) : j <= i
        last == history[Len(history)]
    IN  Abs(history[a].lat - last.lat) + Abs(history[a].lon - last.lon)

\* C4: a stationary check announces "started" only when the node's flag goes
\* from false to true, "ended" only when it goes from true to false, and
\* nothing when the flag is the same before and after.
C4_EventsOnlyOnFlagChange ==
    [][StationaryStep =>
        LET n == CurrentNode.node_id
            was == DictGet(node_stationary_state, n, FALSE)
        IN  /\ HasKind(ret'.events, "stationary_start")
                   => ~was /\ DictGet(node_stationary_state', n, FALSE)
            /\ HasKind(ret'.events, "stationary_stop")
                   => was /\ ~DictGet(node_stationary_state', n, FALSE)
            /\ was = DictGet(node_stationary_state', n, FALSE)
                   => ret'.events = <<>>
            /\ Len(ret'.events) <= 1]_vars

\* A check announced that a stationary node moves again.
C4_Witness ==
    /\ ret.op = "check_node_stationary"
    /\ ret.was /\ ~ret.flag
    /\ HasKind(ret.events, "stationary_stop")

\* C5: when the history has a sample at least timeThreshold older than the
\* last one and the displacement since the most recent such sample is at
\* most distanceThreshold (equality included), the check returns stationary,
\* and it announces "started" exactly when the flag was not set already.
C5_StationaryWithinThresholds ==
    [][StationaryStep =>
        LET n == CurrentNode.node_id
            history == DictGet(node_location_history, n, <<>>)
            was == DictGet(node_stationary_state, n, FALSE)
        IN  (/\ Len(history) >= 2
             /\ OldEnough(history, time_threshold) # {}
             /\ Displacement(history, time_threshold) <= distance_threshold)
            => /\ ret'.flag
               /\ DictGet(node_stationary_state', n, FALSE)
               /\ HasKind(ret'.events, "stationary_start") <=> ~was
               /\ ~HasKind(ret'.events, "stationary_stop")]_vars

\* A later check of a node that is still stationary, its displacement equal
\* to the threshold: the flag stays and nothing is announced.
C5_Witness ==
    /\ ret.op = "check_node_stationary"
    /\ ret.was /\ ret.flag /\ ret.events = <<>>
    /\ LET history == DictGet(node_location_history, ret.node_id, <<>>)
       IN  /\ Len(history) >= 2
           /\ OldEnough(history, time_threshold) # {}
           /\ Displacement(history, time_threshold) = distance_threshold

\* C6: a node whose every report carries the same coordinates is announced
\* as stationary at the first check at which the time since its first
\* sample reaches timeThreshold, and not before.
C6_StillNodeIsAnnounced ==
    [][StationaryStep =>
        LET n == CurrentNode.node_id
            history == DictGet(node_location_history, n, <<>>)
            was == DictGet(node_stationary_state, n, FALSE)
        IN  history # <<>> =>
              IF CurrentNode.last_heard - history[1].t >= time_threshold
              THEN /\ DictGet(node_stationary_state', n, FALSE)
                   /\ HasKind(ret'.events, "stationary_start") <=> ~was
              ELSE ret'.events = <<>>]_vars

\* C7: with fewer than two samples, or with no sample at least
\* timeThreshold older than the last one, the check returns not stationary,
\* announces nothing, and leaves the flag cleared.
C7_UndeterminedIsSilent ==
    [][StationaryStep =>
        LET n == CurrentNode.node_id
            history == DictGet(node_location_history, n, <<>>)
        IN  (Len(history) < 2 \/ OldEnough(history, time_threshold) = {})
            => /\ ~ret'.flag
               /\ ret'.events = <<>>
               /\ ~DictGet(node_stationary_state', n, FALSE)]_vars

\* A set flag was cleared without an announcement.
C7_Witness ==
    /\ ret.op = "check_node_stationary"
    /\ ret.was /\ ~ret.flag /\ ret.events = <<>>
    /\ LET history == DictGet(node_location_history, ret.node_id, <<>>)
       IN  Len(history) < 2 \/ OldEnough(history, time_threshold) = {}

\* ---------------------------------------------------------------- throttle claims
\* C8: in every reachable state and for every key, a call dispatches exactly
\* when force is set or more than the cooldown has passed since the key's
\* last dispatch (0 if none); a dispatch sets the key's ledger entry to now
\* and a suppressed call leaves the ledger as it is.
C8_DispatchIffForcedOrCooledDown ==
    \A k \in ThrottleKeys, force \in BOOLEAN :
        LET s == send_text_notification(last_notification_time, k, force, now)
            last == IF k \in DOMAIN last_notification_time
                    THEN last_notification_time[k] ELSE 0
            due == force \/ now - last > 60
        IN  /\ s.dispatched <=> due
            /\ due => /\ DOMAIN s.ledger = DOMAIN last_notification_time \cup {k}
                      /\ s.ledger[k] = now
                      /\ \A o \in DOMAIN last_notification_time \ {k} :
                             s.ledger[o] = last_notification_time[o]
            /\ ~due => s.ledger = last_notification_time

\* An unforced call exactly one cooldown after the key's dispatch was
\* suppressed.
C8_Witness ==
    /\ ret.op = "send_text_notification"
    /\ ~ret.flag /\ ret.dispatched = <<FALSE>>
    /\ now - last_notification_time[ret.keys[1]] = 60

\* ---------------------------------------------------------------- key and queue claims
\* C9: the cooldown keys of the events of one check separate the events by
\* (kind, node id, fence name): two events that differ in any of the three
\* get different keys, so neither can suppress the other.
C9_KeysSeparateNodesAndFences ==
    [][GeofenceStep =>
        \A i, j \in 1..Len(ret'.events) :
            <<ret'.events[i].kind, ret'.events[i].node_id, ret'.events[i].fence>>
              # <<ret'.events[j].kind, ret'.events[j].node_id, ret'.events[j].fence>>
            => ret'.keys[i] # ret'.keys[j]]_vars

C14_LocalNodeNotInSnapshot ==
    my_node_info = LocalId => LocalId \notin Range(nodes_to_check)

\* ---------------------------------------------------------------- loop claims
\* --- a config.yaml whose private_channel_psk is a number: two remote nodes
\* --- report positions among two fences.
FaultConfigs ==
    {[AppConfig(60, 1, TwoFences) EXCEPT !.private_channel_psk = psk] :
        psk \in {TextPsk, NumericPsk}}
FaultNodes == {"n1", "n2"}
FaultPositions == {<<0, 1>>, <<1, 1>>}

InitFault == \E cfg \in FaultConfigs : InitWith(cfg)

NextFault ==
    \/ Loop
    \/ \E id \in FaultNodes, p \in FaultPositions :
           on_receive(id, "POSITION_APP", p[1], p[2], <<>>)
    \/ update_notifications_from_queue

SpecFault == InitFault /\ [][NextFault]_vars

\* The loop step in which an engine call's message made
\* send_meshtastic_text raise.
RaisedStep == pc \in {"fence", "stat"} /\ ret'.raised

\* C11: when the evaluation of one node raises while other nodes of the
\* snapshot are still to be evaluated, the tick goes on with the next of
\* them: the nodes after it are still driven through the three engine calls.
C11_TickGoesOnAfterNodeError ==
    [][RaisedStep /\ Tail(nodes_to_check) # <<>> =>
          /\ nodes_to_check' = Tail(nodes_to_check)
          /\ pc' = "update"]_vars

\* C12: an exception that leaves the tick body is caught and the loop is
\* back at the top of its while loop, from where the next tick starts; the
\* loop's thread is never ended by it.
C12_LoopSurvivesException ==
    [][(RaisedStep => pc' = "top") /\ pc' # "dead"]_vars

\* A tick after the one that raised has reached its node evaluation.
C12_Witness == pc = "update" /\ ret.raised

\* C13: for each node the engine calls of a tick run in the order
\* update_node_location, check_node, check_node_stationary: the geofence
\* check follows the update for the same node, the stationary check follows
\* the geofence check for the same node, the history changes only in the
\* update step, and so the stationary check reads the history that holds
\* the sample of this tick.
C13_UpdateThenCheckThenStationary ==
    [][/\ pc' = "fence" =>
              /\ ret'.op = "update_node_location"
              /\ ret'.node_id = Head(nodes_to_check')
       /\ pc' = "stat" =>
              /\ ret'.op = "check_node"
              /\ ret'.node_id = Head(nodes_to_check')
       /\ pc = "update" /\ pc' # "update" =>
              /\ pc' = "fence"
              /\ node_location_history' =
                     update_node_location(node_location_history, CurrentNode, now)
       /\ pc \in {"fence", "stat"} =>
              node_location_history' = node_location_history
       /\ StationaryStep =>
              /\ ret'.op = "check_node_stationary"
              /\ ret'.node_id = Head(nodes_to_check)]_vars

\* The stationary check is about to run for n1, whose history got its
\* second sample in this tick.
C13_Witness ==
    /\ pc = "stat"
    /\ Head(nodes_to_check) = "n1"
    /\ "n1" \in DOMAIN node_location_history
    /\ Len(node_location_history["n1"]) = 2
    /\ node_location_history["n1"][2].t = now

\* --- the web thread serves status requests while the loop evaluates a
\* --- remote node that moves among two fences.
WebPositions == {<<0, 1>>, <<1, 1>>, <<2, 2>>}

InitWeb == InitWith(AppConfig(60, 1, TwoFences))

NextWeb ==
    \/ Loop
    \/ \E p \in WebPositions : on_receive("n1", "POSITION_APP", p[1], p[2], <<>>)
    \/ summary_begin
    \/ summary_next
    \/ update_notifications_from_queue

SpecWeb == InitWeb /\ [][NextWeb]_vars

\* C15: the membership state is accessed by the loop's thread only: while
\* the web thread is reading it for a summary, no tick changes it.
C15_NoMutationDuringWebRead ==
    [][web.pc = "iter" => nodes_inside' = nodes_inside]_vars

\* The fence names there are in any configuration.
AllNames == {A, B, OA, OB}

\* C20: the keys of the summary are exactly the names of the active fence
\* list; a node id is listed under a fence name exactly when the name is in
\* the node's membership set; and after a check that emitted an Exit for a
\* fence the node is not listed under that fence.
C20_SummaryMirrorsMembership ==
    [][LET summary == get_nodes_inside_summary(geofences', nodes_inside')
       IN  /\ DOMAIN summary = {geofences'[i].name : i \in DOMAIN geofences'}
           /\ \A name \in AllNames, id \in DbIds(node_db') :
                  (name \in DOMAIN summary /\ id \in summary[name])
                  <=> name \in DictGet(nodes_inside', id, {})
           /\ GeofenceStep =>
                  \A i \in DOMAIN ret'.events :
                      ret'.events[i].kind = "exited"
                      /\ ret'.events[i].fence \in DOMAIN summary
                      => ret'.node_id \notin summary[ret'.events[i].fence]]_vars

\* n1 has just left fence A and is inside fence B: the summary lists it
\* under B and has an empty entry for A.
C20_Witness ==
    /\ pc = "stat"
    /\ ret.op = "check_node"
    /\ \E i \in DOMAIN ret.events :
           ret.events[i].kind = "exited" /\ ret.events[i].fence = A
    /\ get_nodes_inside_summary(geofences, nodes_inside) =
           [name \in {A, B} |-> IF name = B THEN {"n1"} ELSE {}]

\* ---------------------------------------------------------------- reload claims
\* The loop step that finds the reload event set and reloads.
ReloadStep == pc = "top" /\ pc' = "main" /\ config_reload_event

\* C16: a reload replaces the engine's fence list by the configured one and
\* empties every node's membership without any event (nothing is returned,
\* sent or queued); the next check of a node then emits an Enter for every
\* fence of the new list the node is inside, whatever its membership was
\* before the reload.
C16_ReloadClearsSilently ==
    [][/\ ReloadStep =>
              /\ geofences' = config.geofences
              /\ nodes_inside' = EmptyDict
              /\ ret' = ret
              /\ notification_queue' = notification_queue
              /\ last_notification_time' = last_notification_time
       /\ GeofenceStep /\ PositionKnown(CurrentNode)
          /\ CurrentNode.node_id \in DOMAIN checked
          /\ checked[CurrentNode.node_id].reloaded =>
              \A f \in NamesWithin(geofences, CurrentNode) :
                  CountEvents(ret'.events, "entered", f) >= 1]_vars

\* n1 was inside B, the fences were reloaded, and the next check of n1
\* announced its entry into B a second time: the queue holds the
\* announcement twice.
C16_Witness ==
    /\ pc = "stat" /\ ret.op = "check_node" /\ ret.node_id = "n1"
    /\ CountEvents(ret.events, "entered", B) = 1
    /\ Len(notification_queue) = 2
    /\ notification_queue[1] = notification_queue[2]

\* --- the operator changes only the stationary time threshold on the config
\* --- page while a remote node reports positions among two fences.
ReloadConfigs == {AppConfig(60, 1, TwoFences), AppConfig(61, 1, TwoFences)}
ReloadPositions == {<<0, 1>>, <<1, 1>>}

InitReload == InitWith(AppConfig(60, 1, TwoFences))

NextReload ==
    \/ Loop
    \/ \E p \in ReloadPositions : on_receive("n1", "POSITION_APP", p[1], p[2], <<>>)
    \/ \E c \in ReloadConfigs : config_page(c)
    \/ ClearReloadEvent
    \/ update_notifications_from_queue

SpecReload == InitReload /\ [][NextReload]_vars

\* --- the config page, its timer and the loop alone, with the scheduling the
\* --- threads have: the loop's thread keeps running and a started timer
\* --- fires.  The operator is under no obligation.
SyncConfigs == {AppConfig(60, 1, TwoFences), AppConfig(61, 1, TwoFences),
                AppConfig(60, 1, SameName)}

InitSync == InitWith(AppConfig(60, 1, TwoFences))

NextSync ==
    \/ Loop
    \/ \E c \in SyncConfigs : config_page(c)
    \/ ClearReloadEvent

SpecSync ==
    /\ InitSync /\ [][NextSync]_vars
    /\ WF_vars(Loop)
    /\ WF_vars(ClearReloadEvent)

\* The engines work with values that differ from the configured ones.
EngineStale ==
    \/ geofences # config.geofences
    \/ time_threshold # config.stationary_time_threshold
    \/ distance_threshold # config.stationary_distance_threshold

\* C17: every change of the configured fence list or thresholds is
\* eventually observed by the loop, for every interleaving of the config
\* page, its timer and the loop: unless the operator goes on changing the
\* configuration for ever, from some tick on the engines work with the
\* configured fence list and thresholds.
C17_ConfigChangeEventuallyObserved ==
    ([]<><<config' # config>>_vars) \/ <>[](~EngineStale)

\* C18: the loop reloads the fences, and clears the membership, only when
\* the fence list has changed: a config-sync step that finds the configured
\* list equal to the engine's leaves every node's membership as it is.
C18_ReloadOnlyWhenFencesChanged ==
    [][pc = "top" /\ pc' = "main" /\ config.geofences = geofences
          => nodes_inside' = nodes_inside]_vars

\* ---------------------------------------------------------------- check_node called directly
\* --- check_node applied to NodeInfo objects with and without a position,
\* --- whatever the membership left by the calls before.  node_db holds
\* --- the object passed to the last call.
CallNodes == {"n1", "n2"}
CallPositions == {<<0, 1>>, <<1, 1>>, <<2, 2>>, <<None, None>>, <<None, 1>>}

check_node_call(id, lat, lon) ==
    LET node == [NodeInfo(id) EXCEPT !.latitude = lat, !.longitude = lon]
    IN  /\ node_db' = <<node>>
        /\ \E order \in Orders(ExitSet(geofences, nodes_inside, node)) :
             LET r == check_node(geofences, nodes_inside, node, order)
             IN  /\ nodes_inside' = r.inside
                 /\ ret' = [NoReturn EXCEPT !.op = "check_node", !.node_id = id,
                                            !.events = r.notifications]
        /\ UNCHANGED <<geofences, connected, my_node_info, gps, checked>>
        /\ UNCHANGED <<clockVars, stopVars, lockVars, mainVars, cfgVars, webVars, thrVars, statVars, notifVars,
                       loopVars>>

\* The global config is given another fence list.
set_config_geofences(fences) ==
    /\ config' = [config EXCEPT !.geofences = fences]
    /\ UNCHANGED <<config_reload_event, timers>>
    /\ UNCHANGED <<clockVars, stopVars, lockVars, mainVars, dbVars, webVars, geoVars, thrVars, statVars,
                   notifVars, loopVars, obsVars>>

\* GeofenceModule.reload_geofences() called directly.
reload_geofences_call ==
    /\ geofences' = ReloadedFences
    /\ nodes_inside' = ClearedMembership(nodes_inside)
    /\ ret' = [NoReturn EXCEPT !.op = "reload_geofences"]
    /\ UNCHANGED <<checked>>
    /\ UNCHANGED <<clockVars, stopVars, lockVars, mainVars, cfgVars, dbVars, webVars, thrVars, statVars,
                   notifVars, loopVars>>

InitCall == \E cfg \in GeoConfigs : InitWith(cfg)

NextCall ==
    \/ \E id \in CallNodes, p \in CallPositions : check_node_call(id, p[1], p[2])
    \/ \E cfg \in GeoConfigs : set_config_geofences(cfg.geofences)
    \/ reload_geofences_call

SpecCall == InitCall /\ [][NextCall]_vars

\* The step is a call of check_node.
CheckCallStep == ret'.op = "check_node" /\ config' = config

\* C19: a check of a node whose position is absent emits one Exit, marked
\* position unknown and without a distance, for every fence the node was
\* inside before, emits no Enter, and leaves the node without a membership
\* entry.
C19_AbsentPositionExitsEverything ==
    [][LET node == node_db'[1]
           before == DictGet(nodes_inside, node.node_id, {})
       IN  CheckCallStep /\ ~PositionKnown(node) =>
               /\ Len(ret'.events) = Cardinality(before)
               /\ \A f \in before : CountEvents(ret'.events, "exited", f) = 1
               /\ \A i \in DOMAIN ret'.events :
                      /\ ret'.events[i].kind = "exited"
                      /\ ret'.events[i].dist = INF
                      /\ ret'.events[i].msg[Len(ret'.events[i].msg)]
                             = "(position unknown)"
               /\ node.node_id \notin DOMAIN nodes_inside']_vars

\* A node that was inside two fences has been checked without a position:
\* two Exit events and no membership entry.
C19_Witness ==
    /\ ret.op = "check_node"
    /\ ~PositionKnown(node_db[1])
    /\ Len(ret.events) = 2
    /\ ret.node_id \notin DOMAIN nodes_inside

\* ---------------------------------------------------------------- history claims
\* --- update_node_location applied to NodeInfo objects with any position
\* --- and any last_heard (None: the clock is used), in any order.  node_db
\* --- holds the object passed to the last call.
HistTimes == {None, StartTime, StartTime + 1, StartTime + 2, StartTime + 3,
              StartTime + 4}
HistPositions == {<<0, 1>>, <<1, 1>>, <<None, None>>}

update_node_location_call(id, lat, lon, heard) ==
    LET node == [NodeInfo(id) EXCEPT !.latitude = lat, !.longitude = lon,
                                     !.last_heard = heard]
    IN  /\ node_db' = <<node>>
        /\ node_location_history' =
               update_node_location(node_location_history, node, now)
        /\ ret' = [NoReturn EXCEPT !.op = "update_node_location", !.node_id = id]
        /\ UNCHANGED <<node_stationary_state, connected, my_node_info, gps, checked>>
        /\ UNCHANGED <<clockVars, stopVars, lockVars, mainVars, cfgVars, webVars, geoVars, thrVars, notifVars,
                       loopVars>>

InitHist == InitWith(AppConfig(60, 1, NoFences))

NextHist ==
    \E id \in {"n1", "n2"}, p \in HistPositions, heard \in HistTimes :
        update_node_location_call(id, p[1], p[2], heard)

SpecHist == InitHist /\ [][NextHist]_vars

\* The timestamps of a history increase strictly.
StrictlyIncreasing(history) ==
    \A i \in 1..(Len(history) - 1) : history[i].t < history[i + 1].t

\* C21: the timestamps of every history increase strictly; a call of
\* update_node_location changes a non-empty history exactly when the node
\* has a valid position, the timestamp is greater than the last stored one
\* and the coordinates differ from the last stored ones; it then puts that
\* sample at the end, and it never touches another node's history.
C21_HistoryGrowsOnlyForwardAndOnMove ==
    [][LET node == node_db'[1]
           before == DictGet(node_location_history, node.node_id, <<>>)
           after == DictGet(node_location_history', node.node_id, <<>>)
           timestamp == IF node.last_heard # None THEN node.last_heard ELSE now
       IN  /\ \A id \in DOMAIN node_location_history' :
                  StrictlyIncreasing(node_location_history'[id])
           /\ \A id \in DOMAIN node_location_history :
                  id # node.node_id =>
                      /\ id \in DOMAIN node_location_history'
                      /\ node_location_history'[id] = node_location_history[id]
           /\ before # <<>> =>
                  /\ after # before <=>
                         /\ PositionKnown(node)
                         /\ timestamp > before[Len(before)].t
                         /\ \/ node.latitude # before[Len(before)].lat
                            \/ node.longitude # before[Len(before)].lon
                  /\ after # before =>
                         /\ after[Len(after)] =
                                Sample(timestamp, node.latitude, node.longitude)
                         /\ SubSeq(after, 1, Len(after) - 1) \in
                                {before, Tail(before)}]_vars

\* A second sample has just been appended to the history of n1.
C21_Witness ==
    /\ ret.op = "update_node_location" /\ ret.node_id = "n1"
    /\ "n1" \in DOMAIN node_location_history
    /\ Len(node_location_history["n1"]) = 2
    /\ node_location_history["n1"][2].t = node_db[1].last_heard

\* C30: no history ever holds more than NODE_HISTORY_MAXLEN samples; an
\* append to a full history discards the oldest sample and keeps the others
\* in their order, followed by the new one.
C30_HistoryIsBounded ==
    [][LET node == node_db'[1]
           before == DictGet(node_location_history, node.node_id, <<>>)
           after == DictGet(node_location_history', node.node_id, <<>>)
       IN  /\ \A id \in DOMAIN node_location_history' :
                  Len(node_location_history'[id]) <= NODE_HISTORY_MAXLEN
           /\ Len(before) = NODE_HISTORY_MAXLEN /\ after # before =>
                  /\ Len(after) = NODE_HISTORY_MAXLEN
                  /\ SubSeq(after, 1, Len(after) - 1) = Tail(before)
                  /\ after[Len(after)].t > before[Len(before)].t]_vars

\* The history of n1 is full and its first sample is no longer the one of
\* the start: the oldest sample has been discarded.
C30_Witness ==
    /\ "n1" \in DOMAIN node_location_history
    /\ Len(node_location_history["n1"]) = NODE_HISTORY_MAXLEN
    /\ node_location_history["n1"][1].t = StartTime + 1
    /\ node_location_history["n1"][NODE_HISTORY_MAXLEN].t = StartTime + 4

\* ---------------------------------------------------------------- cleanup claims
\* --- the stationary module called directly: locations are recorded with a
\* --- last_heard of now or of a minute before, the stationary check is run,
\* --- the clock moves on, and cleanup_stale_nodes is called with several
\* --- thresholds.  node_db holds the object passed to the last call, and
\* --- ret.keys the argument of cleanup_stale_nodes.
CleanHeard == {None, StartTime - 60}
CleanPositions == {<<0, 1>>, <<1, 1>>}
CleanAges == {0, 60}

check_node_stationary_call(id) ==
    LET node == NodeInfo(id)
        r == check_node_stationary(node_location_history, node_stationary_state,
                                   node, time_threshold, distance_threshold)
    IN  /\ node_db' = <<node>>
        /\ node_stationary_state' = r.states
        /\ ret' = [NoReturn EXCEPT !.op = "check_node_stationary", !.node_id = id,
                                   !.events = r.notification,
                                   !.flag = r.is_now_stationary]
        /\ UNCHANGED <<node_location_history, connected, my_node_info, gps, checked>>
        /\ UNCHANGED <<clockVars, stopVars, lockVars, mainVars, cfgVars, webVars, geoVars, thrVars, notifVars,
                       loopVars>>

cleanup_stale_nodes_call(stale_threshold_seconds) ==
    LET r == cleanup_stale_nodes(node_location_history, node_stationary_state,
                                 now, stale_threshold_seconds)
    IN  /\ node_location_history' = r.histories
        /\ node_stationary_state' = r.states
        /\ ret' = [NoReturn EXCEPT !.op = "cleanup_stale_nodes",
                                   !.keys = <<stale_threshold_seconds>>]
        /\ UNCHANGED <<checked>>
        /\ UNCHANGED <<clockVars, stopVars, lockVars, mainVars, cfgVars, dbVars, webVars, geoVars, thrVars,
                       notifVars, loopVars>>

InitClean == InitWith(AppConfig(60, 1, TwoFences))

NextClean ==
    \/ \E id \in {"n1", "n2"}, p \in CleanPositions, heard \in CleanHeard :
           update_node_location_call(id, p[1], p[2], heard)
    \/ \E id \in {"n1", "n2"} : check_node_stationary_call(id)
    \/ \E age \in CleanAges : cleanup_stale_nodes_call(age)
    \/ Advance(60)

SpecClean == InitClean /\ [][NextClean]_vars

\* The step is a call of cleanup_stale_nodes.
CleanupStep == ret'.op = "cleanup_stale_nodes" /\ now' = now

\* The nodes whose newest sample is older than max_age.
OlderThan(max_age) ==
    {id \in DOMAIN node_location_history :
        /\ node_location_history[id] # <<>>
        /\ now - node_location_history[id][Len(node_location_history[id])].t
               > max_age}

\* C22: cleanup_stale_nodes(max_age) removes the history and the flag of
\* exactly the nodes whose newest sample is older than max_age, announces
\* nothing, and leaves the other histories and flags, the membership and
\* the ledger as they were.
C22_CleanupRemovesExactlyTheStale ==
    [][CleanupStep =>
          LET max_age == ret'.keys[1]
          IN  /\ DOMAIN node_location_history' =
                     (DOMAIN node_location_history) \ OlderThan(max_age)
              /\ DOMAIN node_stationary_state' =
                     (DOMAIN node_stationary_state) \ OlderThan(max_age)
              /\ \A id \in DOMAIN node_location_history' :
                     node_location_history'[id] = node_location_history[id]
              /\ \A id \in DOMAIN node_stationary_state' :
                     node_stationary_state'[id] = node_stationary_state[id]
              /\ ret'.events = <<>>
              /\ UNCHANGED <<nodes_inside, geofences, last_notification_time,
                             notification_queue>>]_vars

\* A cleanup has removed the history and the flag of n1 and has kept those
\* of n2.
C22_Witness ==
    /\ ret.op = "cleanup_stale_nodes"
    /\ "n1" \notin DOMAIN node_location_history
    /\ "n1" \notin DOMAIN node_stationary_state
    /\ "n2" \in DOMAIN node_location_history
    /\ "n2" \in DOMAIN node_stationary_state

\* --- the loop over hours: a remote node goes on reporting while the clock
\* --- jumps past the cleanup period and past the stale threshold; the
\* --- reports arrive between ticks.
SweepPositions == {<<0, 1>>, <<1, 1>>}

InitSweep == InitWith(AppConfig(60, 1, NoFences))

NextSweep ==
    \/ Loop
    \/ Advance(CLEANUP_PERIOD + 1)
    \/ Advance(STALE_THRESHOLD + 1)
    \/ \E p \in SweepPositions :
           pc = "top" /\ on_receive("n1", "POSITION_APP", p[1], p[2], <<>>)

SpecSweep == InitSweep /\ [][NextSweep]_vars

\* The loop step that runs the stale cleanup.
SweepStep ==
    pc = "finish" /\ pc' = "top" /\ now - last_stale_cleanup_time > CLEANUP_PERIOD

\* The nodes of node_db heard within the stale threshold.
HeardRecently ==
    {node_db[i].node_id : i \in {j \in DOMAIN node_db :
        node_db[j].last_heard # None
        /\ now - node_db[j].last_heard <= STALE_THRESHOLD}}

\* C23: a sweep removes only nodes unseen for the stale threshold: a node
\* heard within it keeps its history and its stationary flag.
C23_SweepSparesNodesStillHeard ==
    [][SweepStep =>
          \A id \in HeardRecently :
              /\ id \in DOMAIN node_location_history
                     => id \in DOMAIN node_location_history'
              /\ id \in DOMAIN node_stationary_state
                     => id \in DOMAIN node_stationary_state']_vars

\* ---------------------------------------------------------------- membership claims
\* C29: in every state the membership map has no node with an empty set,
\* whatever checks and reloads came before.
C29_NoEmptyMembership ==
    \A id \in DOMAIN nodes_inside : nodes_inside[id] # {}

\* A node that was inside fences has been checked at a position outside all
\* of them: it has left every fence and has no entry.
C29_Witness ==
    /\ ret.op = "check_node" /\ ret.node_id = "n1"
    /\ PositionKnown(node_db[1])
    /\ NamesWithin(geofences, node_db[1]) = {}
    /\ HasKind(ret.events, "exited")
    /\ "n1" \notin DOMAIN nodes_inside
    /\ "n2" \in DOMAIN nodes_inside

\* C27: every fence list the engine holds has only fences with a positive
\* radius and pairwise distinct names.
C27_FenceListIsValid ==
    /\ \A i \in DOMAIN geofences : geofences[i].radius_km > 0
    /\ \A i, j \in DOMAIN geofences :
           i # j => geofences[i].name # geofences[j].name

\* ---------------------------------------------------------------- undefined fence distance
\* Fence lists AppConfig.load accepts from config.yaml: a fence whose centre
\* is null, and the same with a second fence of the same name behind it.
NoCentre == <<GeofenceConfig(A, None, None, 1), GeofenceConfig(B, 0, 0, 1)>>
ShadowedCentre ==
    <<GeofenceConfig(A, None, None, 1), GeofenceConfig(A, 1, 1, 1),
      GeofenceConfig(B, 0, 0, 1)>>

UndefConfigs == {AppConfig(60, 1, f) : f \in {NoCentre, ShadowedCentre}}
UndefPositions ==
    {<<0, 0>>, <<0, 1>>, <<1, 1>>, <<2, 2>>, <<None, None>>}

InitUndef == \E cfg \in UndefConfigs : InitWith(cfg)

NextUndef ==
    \E id \in CallNodes, p \in UndefPositions : check_node_call(id, p[1], p[2])

SpecUndef == InitUndef /\ [][NextUndef]_vars

\* The distance from the node to the fence.
FenceDistance(node, fence) ==
    calculate_distance_km(node.latitude, node.longitude,
                          fence.latitude, fence.longitude)

\* The message holds the token.
HasToken(msg, tok) == \E i \in DOMAIN msg : msg[i] = tok

\* C28: in a check of a positioned node, a fence whose distance is undefined
\* is not inside and gets no Enter, the fences with a defined distance are
\* evaluated as ever, and a name the node was inside before whose fence now
\* has an undefined distance gets one Exit carrying the unknown-distance
\* marker and leaves the node's membership; the check does not fail.
C28_UndefinedDistanceSkipsFence ==
    [][LET node == node_db'[1]
           before == DictGet(nodes_inside, node.node_id, {})
           after == DictGet(nodes_inside', node.node_id, {})
           defined == {i \in DOMAIN geofences :
                          FenceDistance(node, geofences[i]) # INF}
           within == {i \in defined :
                          FenceDistance(node, geofences[i])
                              <= geofences[i].radius_km}
       IN  CheckCallStep /\ PositionKnown(node) =>
               /\ ~ret'.raised
               /\ after = {geofences[i].name : i \in within}
               /\ \A i \in DOMAIN ret'.events :
                      ret'.events[i].kind = "entered" =>
                          /\ ret'.events[i].dist # INF
                          /\ ret'.events[i].fence
                                 \in {geofences[j].name : j \in within}
               /\ \A f \in AllNames :
                      CountEvents(ret'.events, "entered", f) =
                          Cardinality({i \in within :
                              geofences[i].name = f /\ f \notin before})
               /\ \A f \in before \ after :
                      LET exited_fence == FirstNamed(geofences, f)
                      IN  FenceDistance(node, exited_fence[1]) = INF =>
                              /\ CountEvents(ret'.events, "exited", f) = 1
                              /\ \A i \in DOMAIN ret'.events :
                                     ret'.events[i].kind = "exited"
                                         /\ ret'.events[i].fence = f =>
                                     /\ ret'.events[i].dist = INF
                                     /\ HasToken(ret'.events[i].msg,
                                                 "unknown distance")]_vars

\* A node that was inside the second fence named A has been checked away
\* from it while inside B: the Exit for A is measured against the first fence
\* named A, whose centre is missing, and carries the marker; B was evaluated.
C28_Witness ==
    /\ ret.op = "check_node"
    /\ geofences = ShadowedCentre
    /\ PositionKnown(node_db[1])
    /\ \E i \in DOMAIN ret.events :
           /\ ret.events[i].kind = "exited"
           /\ ret.events[i].fence = A
           /\ ret.events[i].dist = INF
           /\ HasToken(ret.events[i].msg, "unknown distance")
    /\ DictGet(nodes_inside, ret.node_id, {}) = {B}

\* ---------------------------------------------------------------- distance claims
\* Coordinates handed to calculate_distance_km: numbers, a missing value, a
\* value that is no number, and an infinite float (config.yaml's .inf, or
\* "inf" typed into the geofence form, which float() accepts).
DistCoords == {0, 1, 2, None, NonNumeric, INF}

\* calculate_distance_km(lat1, lon1, lat2, lon2) called directly.
calculate_distance_km_call(lat1, lon1, lat2, lon2) ==
    /\ ret' = [NoReturn EXCEPT !.op = "calculate_distance_km",
                               !.keys = <<lat1, lon1, lat2, lon2>>,
                               !.raised = distance_raises(lat1, lon1, lat2, lon2)]
    /\ UNCHANGED <<checked>>
    /\ UNCHANGED <<clockVars, stopVars, lockVars, mainVars, cfgVars, dbVars, webVars, geoVars, thrVars,
                   statVars, notifVars, loopVars>>

InitDist == InitWith(AppConfig(60, 1, NoFences))

NextDist ==
    \E lat1, lon1, lat2, lon2 \in DistCoords :
        calculate_distance_km_call(lat1, lon1, lat2, lon2)

SpecDist == InitDist /\ [][NextDist]_vars

\* C26: a call of the distance function does not raise; it gives the
\* undefined sentinel when one of the four coordinates is missing or no
\* number, and a finite value that is not negative otherwise.
C26_DistanceNeverRaises ==
    ret.op = "calculate_distance_km" =>
        LET k == ret.keys
            d == calculate_distance_km(k[1], k[2], k[3], k[4])
            unusable == \E i \in 1..4 : k[i] \in {None, NonNumeric}
        IN  /\ ~ret.raised
            /\ unusable => d = INF
            /\ ~unusable => d # INF /\ d # NaN /\ d >= 0

\* ---------------------------------------------------------------- proximity claims
LedFixes == {<<0, 0>>, <<0, 1>>, <<1, 1>>}
LedNodes == {"n1", "n2"}
LedPositions == {<<0, 1>>, <<1, 0>>, <<1, 1>>, <<2, 2>>}

InitLed == InitWith(AppConfig(60, 1, NoFences))

\* The loop, the GPS reader, and position reports that arrive between ticks.
NextLed ==
    \/ Loop
    \/ \E p \in LedFixes : gps_read(p[1], p[2])
    \/ \E id \in LedNodes, p \in LedPositions :
           pc = "top" /\ on_receive(id, "POSITION_APP", p[1], p[2], <<>>)

SpecLed == InitLed /\ [][NextLed]_vars

\* The loop step that reports to update_led_proximity.
LedStep == pc = "finish" /\ pc' = "top"

\* The distances from the tick's local position to the nodes of its
\* snapshot that are defined.
DefinedDistances ==
    LET evaluated == Snapshot(node_db, main_my_node_info)
    IN  {calculate_distance_km(local_pos[1], local_pos[2],
                               DbGet(node_db, evaluated[i]).latitude,
                               DbGet(node_db, evaluated[i]).longitude) :
            i \in DOMAIN evaluated} \ {INF}

\* C25: the value the tick reports for the proximity feedback is the least
\* defined distance from the local position to a node evaluated in the
\* tick, and none when the local position is unknown, no node was evaluated
\* or no distance was defined.
C25_LedGetsLeastDefinedDistance ==
    [][LedStep =>
          IF local_pos[1] = None \/ local_pos[2] = None \/ DefinedDistances = {}
          THEN led' = None
          ELSE /\ led' \in DefinedDistances
               /\ \A d \in DefinedDistances : led' <= d]_vars

\* A tick with a known local position has evaluated two nodes at different
\* distances, the nearer one first, and reported the smaller distance.
C25_Witness ==
    /\ pc = "top"
    /\ local_pos = <<1, 1>>
    /\ Cardinality(DefinedDistances) >= 2
    /\ led # None
    /\ led \in DefinedDistances
    /\ \A d \in DefinedDistances : led <= d
    /\ LET evaluated == Snapshot(node_db, main_my_node_info)
           last == DbGet(node_db, evaluated[Len(evaluated)])
       IN  /\ PositionKnown(last)
           /\ calculate_distance_km(local_pos[1], local_pos[2],
                                    last.latitude, last.longitude) > led

\* ---------------------------------------------------------------- shutdown claims
StopConfig == [AppConfig(60, 1, NoFences) EXCEPT !.private_channel_psk = NumericPsk]
StopPositions == {<<0, 1>>, <<1, 1>>}

InitStop == InitWith(StopConfig)

\* The loop, the signal at any moment, and between ticks a node that
\* reports positions and the passing of time: a node that stays put is
\* announced as stationary, and with a numeric PSK the announcement
\* raises, which sends the loop into its error wait.
NextStop ==
    \/ Loop
    \/ LoopExit
    \/ shutdown_handler
    \/ \E p \in StopPositions :
           pc = "top" /\ on_receive("n1", "POSITION_APP", p[1], p[2], <<>>)
    \/ pc = "top" /\ Advance(60)

\* The loop's thread keeps running while it has a step to take.
SpecStop ==
    /\ InitStop /\ [][NextStop]_vars
    /\ WF_vars(Loop)
    /\ WF_vars(LoopExit)

\* C24: with the stop signal set no tick begins, whichever wait the loop is
\* in (after a tick, after an error, or not connected); the signal stays
\* set; and the loop's thread ends.
C24_StopEndsTheLoop ==
    /\ [][stop_event => /\ stop_event'
                        /\ pc = "top" => pc' \in {"top", "done"}]_vars
    /\ stop_event ~> (pc = "done")

\* The signal was set while the loop was in its error wait, and the loop
\* has ended without another tick.
C24_Witness == stop_event /\ pc = "done" /\ ret.raised

\* ---------------------------------------------------------------- anchor claims
\* Thresholds of a second or two, so that the samples of one history lie on
\* both sides of the window.
AnchorConfigs == {AppConfig(t, d, NoFences) : t \in {1, 2}, d \in {0, 1}}
AnchorTimes == {StartTime, StartTime + 1, StartTime + 2, StartTime + 3}
AnchorPositions == {<<0, 1>>, <<1, 0>>, <<1, 1>>}

InitAnchor == \E cfg \in AnchorConfigs : InitWith(cfg)

NextAnchor ==
    \/ \E p \in AnchorPositions, heard \in AnchorTimes :
           update_node_location_call("n1", p[1], p[2], heard)
    \/ check_node_stationary_call("n1")

SpecAnchor == InitAnchor /\ [][NextAnchor]_vars

\* The step is a call of check_node_stationary.
StationaryCallStep == ret'.op = "check_node_stationary"

\* The stored samples at least thr older than the latest one.
AgedSamples(history, thr) ==
    {s \in Range(history) : history[Len(history)].t - s.t >= thr}

\* The aged sample with the greatest timestamp.
Anchor(history, thr) ==
    CHOOSE s \in AgedSamples(history, thr) :
        \A o \in AgedSamples(history, thr) : o.t <= s.t

\* C31: a check that finds an aged sample decides by the displacement
\* between the latest sample and the aged sample with the greatest
\* timestamp, and by nothing else: the answer is stationary exactly when
\* that displacement is within the distance threshold.
C31_AnchorIsLatestAgedSample ==
    [][LET history == DictGet(node_location_history, node_db'[1].node_id, <<>>)
       IN  StationaryCallStep /\ Len(history) >= 2
               /\ AgedSamples(history, time_threshold) # {} =>
               LET latest == history[Len(history)]
                   anchor == Anchor(history, time_threshold)
                   moved == calculate_distance_km(anchor.lat, anchor.lon,
                                                  latest.lat, latest.lon)
               IN  ret'.flag <=> moved <= distance_threshold]_vars

\* A check answered stationary although a sample between the anchor and
\* the latest one lies farther from the latest than the threshold allows.
C31_Witness ==
    /\ ret.op = "check_node_stationary"
    /\ ret.flag
    /\ LET history == DictGet(node_location_history, "n1", <<>>)
       IN  /\ Len(history) = 3
           /\ AgedSamples(history, time_threshold) = {history[1]}
           /\ calculate_distance_km(history[2].lat, history[2].lon,
                                    history[3].lat, history[3].lon)
                  > distance_threshold

\* ---------------------------------------------------------------- snapshot claims
\* C32: within a tick, check_node evaluates a node at the position that
\* update_node_location read for it just before; a report that arrives in
\* between is not seen.
C32_TickSeesOnePosition ==
    [][GeofenceStep /\ ret.op = "update_node_location"
           /\ ret.node_id = CurrentNode.node_id =>
           /\ checked'[CurrentNode.node_id].latitude = ret.keys[1]
           /\ checked'[CurrentNode.node_id].longitude = ret.keys[2]]_vars

\* ---------------------------------------------------------------- sink claims
\* The throttle called directly while the mesh connection comes and goes.
InitSink == InitWith(AppConfig(60, 1, NoFences))

NextSink ==
    \/ \E d \in {60, 61} : Advance(d)
    \/ \E k \in ThrottleKeys, force \in BOOLEAN : Notify(k, force)
    \/ \E status \in {"established", "lost"} : on_connection(status)

SpecSink == InitSink /\ [][NextSink]_vars

\* The step is a call of send_text_notification.
NotifyStep ==
    ret'.op = "send_text_notification" /\ now' = now /\ connected' = connected

\* C33: a call of send_text_notification changes the cooldown ledger only
\* when its message was handed to the mesh-send sink.
C33_CooldownOnlyWhenSent ==
    [][NotifyStep /\ last_notification_time' # last_notification_time =>
           send_meshtastic_text(connected, config.private_channel_psk) = "sent"]_vars

\* ---------------------------------------------------------------- membership claims
\* C34: in every reachable state, whatever the interleaving of checks,
\* reloads and configuration updates, every fence name stored in a node's
\* membership is the name of a fence of the engine's active fence list.
C34_MembershipNamesAreActive ==
    \A id \in DOMAIN nodes_inside : nodes_inside[id] \subseteq FenceNamesOf(geofences)

\* A node has a membership under the engine's list while the configuration
\* already names other fences only.
C34_Witness ==
    /\ ret.op = "check_node"
    /\ \E id \in DOMAIN nodes_inside : nodes_inside[id] # {}
    /\ FenceNamesOf(config.geofences) \cap FenceNamesOf(geofences) = {}

\* ---------------------------------------------------------------- alternation claims
\* No two fences of the list have the same name.
UniqueNames(fences) ==
    \A i, j \in 1..Len(fences) : fences[i].name = fences[j].name => i = j

\* The step is a call of reload_geofences.
ReloadCallStep == ret'.op = "reload_geofences" /\ config' = config

\* C35: with unique fence names and no reload in between, the Enter and Exit
\* events emitted for a (node, fence) pair alternate, starting with Enter. The
\* stored membership is the record of the last event of the pair: a step that
\* is not a reload emits one Enter for F exactly when it puts F into the
\* node's membership, which did not contain it, and one Exit for F exactly
\* when it takes F out of the membership, which contained it; it emits
\* nothing else for the pair, and the membership starts without F.
C35_EnterAndExitAlternate ==
    /\ [][UniqueNames(geofences) /\ ~ReloadCallStep =>
            \A id \in CallNodes, F \in FenceNamesOf(geofences) :
                LET before == F \in DictGet(nodes_inside, id, {})
                    after == F \in DictGet(nodes_inside', id, {})
                    emitted == IF CheckCallStep /\ ret'.node_id = id
                               THEN ret'.events ELSE <<>>
                IN  /\ CountEvents(emitted, "entered", F)
                           = IF ~before /\ after THEN 1 ELSE 0
                    /\ CountEvents(emitted, "exited", F)
                           = IF before /\ ~after THEN 1 ELSE 0]_vars
    /\ nodes_inside = EmptyDict

\* A check has just emitted the Exit of one fence for a node that was inside
\* both and stays inside the other.
C35_Witness ==
    /\ ret.op = "check_node"
    /\ UniqueNames(geofences)
    /\ \E F, G \in FenceNamesOf(geofences) :
         /\ CountEvents(ret.events, "exited", F) = 1
         /\ CountEvents(ret.events, "entered", G) = 0
         /\ G \in DictGet(nodes_inside, ret.node_id, {})
         /\ F \notin DictGet(nodes_inside, ret.node_id, {})

\* ---------------------------------------------------------------- flag claims
\* --- the stationary engine called directly for two nodes whose samples are
\* --- up to five seconds old, with a time threshold of three seconds and a
\* --- distance threshold of one, and swept of everything not heard now; the
\* --- second node reports two positions at two times only.
FlagConfig == AppConfig(3, 1, NoFences)
FlagTimes == {StartTime - 5, StartTime - 2, StartTime - 1, StartTime}
FlagPositions == {<<0, 1>>, <<1, 1>>, <<2, 2>>}

InitFlag == InitWith(FlagConfig)

NextFlag ==
    \/ \E p \in FlagPositions, heard \in FlagTimes :
           update_node_location_call("n1", p[1], p[2], heard)
    \/ \E p \in {<<0, 1>>, <<1, 1>>}, heard \in {StartTime - 5, StartTime} :
           update_node_location_call("n2", p[1], p[2], heard)
    \/ \E id \in {"n1", "n2"} : check_node_stationary_call(id)
    \/ cleanup_stale_nodes_call(0)

SpecFlag == InitFlag /\ [][NextFlag]_vars

\* The step is a call of check_node_stationary.
CheckStationaryStep == ret'.op = "check_node_stationary" /\ now' = now

\* C36: after every call of check_node_stationary the returned value equals
\* the flag stored for the node (no flag counting as False), and no other
\* node's flag changes; a sweep only removes the flags of the nodes it takes,
\* and nothing else touches a flag. So get_stationary_nodes() lists exactly
\* the nodes whose latest check returned True and that were not swept since.
C36_ReturnedFlagIsStoredFlag ==
    [][LET before == get_stationary_nodes(node_stationary_state)
           after == get_stationary_nodes(node_stationary_state')
       IN  /\ CheckStationaryStep =>
                 /\ ret'.flag = DictGet(node_stationary_state', ret'.node_id, FALSE)
                 /\ after = (before \ {ret'.node_id})
                               \cup (IF ret'.flag THEN {ret'.node_id} ELSE {})
           /\ CleanupStep =>
                 after = before \ StaleNodes(node_location_history, now, ret'.keys[1])
           /\ ~CheckStationaryStep /\ ~CleanupStep => after = before]_vars

\* A check has just returned False for a node whose flag was set, while the
\* other node stays listed.
C36_Witness ==
    /\ ret.op = "check_node_stationary"
    /\ ~ret.flag
    /\ ret.events = <<>>
    /\ ret.node_id \in DOMAIN node_stationary_state
    /\ get_stationary_nodes(node_stationary_state) = {"n1", "n2"} \ {ret.node_id}

\* C37: a Stationary-ended event for a node is emitted only if a
\* Stationary-started event for the node precedes it with no Stationary-ended
\* event, silent downgrade or sweep of the node in between, so two
\* Stationary-ended events never follow each other. The stored flag is the
\* record of it: it starts unset, only a check that emits Stationary-started
\* sets it, a Stationary-ended event is emitted only by a check that finds
\* it set and clears it, and a downgrade or a sweep leaves it unset.
C37_EndedOnlyAfterStarted ==
    /\ node_stationary_state = EmptyDict
    /\ [][\A id \in {"n1", "n2"} :
            LET was == DictGet(node_stationary_state, id, FALSE)
                is == DictGet(node_stationary_state', id, FALSE)
                emitted == IF CheckStationaryStep /\ ret'.node_id = id
                           THEN ret'.events ELSE <<>>
            IN  /\ HasKind(emitted, "stationary_stop") => was /\ ~is
                /\ HasKind(emitted, "stationary_start") <=> ~was /\ is
                /\ Len(emitted) <= 1
                /\ CleanupStep
                     /\ id \in StaleNodes(node_location_history, now, ret'.keys[1])
                     => ~is
                /\ CheckStationaryStep /\ ret'.node_id = id /\ ~ret'.flag => ~is]_vars

\* A check has just emitted Stationary-ended for a node and cleared its flag.
C37_Witness ==
    /\ ret.op = "check_node_stationary"
    /\ HasKind(ret.events, "stationary_stop")
    /\ ret.node_id \in DOMAIN node_stationary_state
    /\ ~node_stationary_state[ret.node_id]

\* ---------------------------------------------------------------- store claims
\* --- packets of a remote node and of the local node, the GPS reader and the
\* --- GPS loop, while the clock runs; the valid positions are reported before
\* --- the clock moves, the other reports at any time.
StoreNodes == {"n1", LocalId}
ValidReports == {<<0, 1>>, <<1, 1>>}
InvalidReports == {<<0, 0>>, <<2, 2>>, <<None, None>>, <<None, 1>>, <<NonNumeric, 1>>}

InitStore == InitWith(AppConfig(60, 1, NoFences))

NextStore ==
    \/ \E id \in StoreNodes, p \in ValidReports :
           now = StartTime /\ on_receive(id, "POSITION_APP", p[1], p[2], <<>>)
    \/ \E id \in StoreNodes, p \in InvalidReports :
           on_receive(id, "POSITION_APP", p[1], p[2], <<>>)
    \/ on_receive("n1", "NODEINFO_APP", None, None, <<"Bob">>)
    \/ \E p \in LedFixes : gps_read(p[1], p[2])
    \/ gps_update_loop
    \/ on_connection("established")
    \/ on_connection("lost")
    \/ Advance(60)

SpecStore == InitStore /\ [][NextStore]_vars

\* The entry has a position.
HasPosition(node) == node.latitude # None /\ node.longitude # None

\* C38: once an entry of node_db has a position, no packet and no step of the
\* GPS loop removes the entry or its position; a position report that is
\* missing, not a number, out of range or (0,0) leaves the entry as it was
\* but for the last-heard time, which becomes the time of the packet.
C38_StoredPositionIsKept ==
    [][/\ \A i \in 1..Len(node_db) :
            HasPosition(node_db[i]) =>
                /\ i <= Len(node_db')
                /\ node_db'[i].node_id = node_db[i].node_id
                /\ HasPosition(node_db'[i])
       /\ \A id \in StoreNodes, p \in InvalidReports :
            /\ id \in DbIds(node_db)
            /\ HasPosition(DbGet(node_db, id))
            /\ on_receive(id, "POSITION_APP", p[1], p[2], <<>>)
            => /\ DbIds(node_db') = DbIds(node_db)
               /\ DbGet(node_db', id) = [DbGet(node_db, id) EXCEPT !.last_heard = now]
               /\ now >= DbGet(node_db, id).last_heard]_vars

\* The remote node has a position, reported before the clock moved, and was
\* heard again afterwards in a report that gave none.
C38_Witness ==
    /\ "n1" \in DbIds(node_db)
    /\ HasPosition(DbGet(node_db, "n1"))
    /\ DbGet(node_db, "n1").name = NodeInfo("n1").name
    /\ DbGet(node_db, "n1").last_heard > StartTime

\* ---------------------------------------------------------------- lock claims
\* "with lock: body" as the lock operations it performs.
With(lock, body) == <<<<"acquire", lock>>>> \o body \o <<<<"release", lock>>>>

\* A variant of update_my_node_info_locks that takes node_db_lock first and
\* my_node_info_lock inside it.
update_my_node_info_locks_db_first(outcome) ==
    CASE outcome = "known" ->
             With("node_db_lock", With("my_node_info_lock", <<>>))
      [] outcome = "unknown" -> With("my_node_info_lock", <<>>)
      [] OTHER ->
             With("node_db_lock", With("my_node_info_lock", <<>>))
                 \o With("my_node_info_lock", <<>>)

\* update_my_node_info: with myInfo known, my_node_info_lock and node_db_lock
\* inside it; with myInfo unknown, my_node_info_lock alone; with an exception
\* under the two locks, both are released and my_node_info_lock taken again.
update_my_node_info_locks(outcome) ==
    CASE outcome = "known" ->
             With("my_node_info_lock", With("node_db_lock", <<>>))
      [] outcome = "unknown" -> With("my_node_info_lock", <<>>)
      [] OTHER ->
             With("my_node_info_lock", With("node_db_lock", <<>>))
                 \o With("my_node_info_lock", <<>>)

\* on_connection: all of it under connection_status_lock.
on_connection_locks(status, outcome) ==
    With("connection_status_lock",
         IF status = "established"
         THEN update_my_node_info_locks(outcome)
         ELSE With("my_node_info_lock", <<>>))

\* on_receive, and the process_*_packet handler of the portnum, if any.
on_receive_locks(portnum) ==
    With("node_db_lock", <<>>)
        \o (IF portnum \in {"NODEINFO_APP", "POSITION_APP", "TELEMETRY_APP"}
            THEN With("node_db_lock", <<>>) ELSE <<>>)

\* One iteration of gps_update_loop.
gps_update_loop_locks(reload, fix) ==
    (IF reload THEN With("config_lock", <<>>) ELSE <<>>)
        \o (IF fix
            THEN With("my_node_info_lock", <<>>)
                     \o (IF main_my_node_info # NoNodeInfo
                         THEN With("node_db_lock", <<>>) ELSE <<>>)
            ELSE <<>>)

\* One iteration of periodic_check_loop.
periodic_check_loop_locks(reload) ==
    (IF reload THEN With("config_lock", <<>>) ELSE <<>>)
        \o With("node_db_lock", <<>>)

\* web.app.index, and web.app.config_page.
index_locks ==
    With("connection_status_lock", <<>>)
        \o With("my_node_info_lock", <<>>)
        \o With("node_db_lock", <<>>)
config_page_locks == With("config_lock", <<>>)

\* A thread that is not in a handler enters one.
StartHandler(t, ops) ==
    /\ todo[t] = <<>>
    /\ todo' = [todo EXCEPT ![t] = ops]
    /\ UNCHANGED <<lock_owner>>
    /\ UNCHANGED <<clockVars, stopVars, mainVars, cfgVars, dbVars, webVars, geoVars,
                   thrVars, statVars, notifVars, loopVars, obsVars>>

\* threading.Lock: acquire blocks while the lock is held, by whichever thread;
\* release frees it.
LockStep(t) ==
    /\ todo[t] # <<>>
    /\ LET op == Head(todo[t])
       IN  IF op[1] = "acquire"
           THEN /\ lock_owner[op[2]] = NoOwner
                /\ lock_owner' = [lock_owner EXCEPT ![op[2]] = t]
           ELSE lock_owner' = [lock_owner EXCEPT ![op[2]] = NoOwner]
    /\ todo' = [todo EXCEPT ![t] = Tail(todo[t])]
    /\ UNCHANGED <<clockVars, stopVars, mainVars, cfgVars, dbVars, webVars, geoVars,
                   thrVars, statVars, notifVars, loopVars, obsVars>>

InitLock == InitWith(AppConfig(60, 1, NoFences))

NextLock ==
    \/ \E status \in {"established", "lost"}, outcome \in {"known", "unknown", "error"} :
           StartHandler("conn", on_connection_locks(status, outcome))
    \/ \E portnum \in {"POSITION_APP", "TEXT_MESSAGE_APP"} :
           StartHandler("recv", on_receive_locks(portnum))
    \/ \E reload, fix \in BOOLEAN :
           StartHandler("gps", gps_update_loop_locks(reload, fix))
    \/ \E reload \in BOOLEAN :
           StartHandler("check", periodic_check_loop_locks(reload))
    \/ StartHandler("web", index_locks)
    \/ StartHandler("web", config_page_locks)
    \/ \E t \in Threads : LockStep(t)

SpecLock == InitLock /\ [][NextLock]_vars

\* The locks a thread holds.
HeldBy(t) == {l \in Locks : lock_owner[l] = t}

\* The thread t is blocked on, if any: the holder of the lock it is acquiring.
WaitsFor(t) ==
    IF todo[t] # <<>> /\ Head(todo[t])[1] = "acquire"
                      /\ lock_owner[Head(todo[t])[2]] # NoOwner
    THEN {lock_owner[Head(todo[t])[2]]}
    ELSE {}

\* The threads reached from t along k waits.
RECURSIVE WaitChain(_, _)
WaitChain(t, k) ==
    IF k = 0 THEN {t}
    ELSE UNION {WaitsFor(u) : u \in WaitChain(t, k - 1)}

\* Some threads wait for each other in a circle.
WaitCycle == \E t \in Threads, k \in 1..Cardinality(Threads) : t \in WaitChain(t, k)

\* The order of acquisition: connection_status_lock, my_node_info_lock,
\* node_db_lock; config_lock is never taken with another.
LockRank(l) ==
    CASE l = "connection_status_lock" -> 1
      [] l = "my_node_info_lock" -> 2
      [] l = "node_db_lock" -> 3
      [] OTHER -> 4

\* C39: a thread that acquires one of the four locks while it holds another
\* acquires them in one order (connection_status_lock, then
\* my_node_info_lock, then node_db_lock, config_lock always alone), and in no
\* reachable state do threads wait in a circle for locks held by each other.
C39_LocksAreTakenInOneOrder ==
    /\ [][\A t \in Threads, l \in Locks :
            lock_owner[l] # t /\ lock_owner'[l] = t =>
                /\ \A held \in HeldBy(t) : LockRank(held) < LockRank(l)
                /\ l = "config_lock" => HeldBy(t) = {}]_vars
    /\ []~WaitCycle

\* on_connection holds the three locks while the callback of a packet, the
\* GPS loop and a request of the web server are blocked on them.
C39_Witness ==
    /\ HeldBy("conn") = {"connection_status_lock", "my_node_info_lock", "node_db_lock"}
    /\ WaitsFor("recv") = {"conn"}
    /\ WaitsFor("gps") = {"conn"}
    /\ WaitsFor("web") = {"conn"}

\* ---------------------------------------------------------------- shutdown claims
\* The background threads that are alive: t.is_alive().
ActiveThreads ==
    {t \in BackgroundThreads : thread_state[t] # "ended"}
        \cup (IF pc # "done" THEN {"check"} ELSE {})

\* A started thread enters its target: gps_update_loop reaches its while
\* loop, start_web_app reaches app.run and the server serves.
thread_start(t) ==
    /\ thread_state[t] = "starting"
    /\ thread_state' = [thread_state EXCEPT ![t] = "running"]
    /\ UNCHANGED <<main_at, interface_closed>>
    /\ UNCHANGED <<clockVars, stopVars, lockVars, cfgVars, dbVars, webVars, geoVars,
                   thrVars, statVars, notifVars, loopVars, obsVars>>

\* start_web_app: app.run raises (the port is in use, say), the error is
\* logged and the thread ends.  A server that runs has no way out: nothing
\* in web/app.py looks at stop_event or stops the server.
web_start_fails ==
    /\ thread_state["web"] = "starting"
    /\ thread_state' = [thread_state EXCEPT !["web"] = "ended"]
    /\ UNCHANGED <<main_at, interface_closed>>
    /\ UNCHANGED <<clockVars, stopVars, lockVars, cfgVars, dbVars, webVars, geoVars,
                   thrVars, statVars, notifVars, loopVars, obsVars>>

\* gps_update_loop: the while test fails, the reader is stopped and the
\* thread ends.
gps_thread_exit ==
    /\ thread_state["gps"] = "running"
    /\ stop_event
    /\ thread_state' = [thread_state EXCEPT !["gps"] = "ended"]
    /\ UNCHANGED <<main_at, interface_closed>>
    /\ UNCHANGED <<clockVars, stopVars, lockVars, cfgVars, dbVars, webVars, geoVars,
                   thrVars, statVars, notifVars, loopVars, obsVars>>

\* main(): "while not stop_event.is_set(): time.sleep(1)" ends and the
\* finally block begins.
main_monitor ==
    /\ main_at = "monitor"
    /\ stop_event
    /\ main_at' = "joining"
    /\ UNCHANGED <<thread_state, interface_closed>>
    /\ UNCHANGED <<clockVars, stopVars, lockVars, cfgVars, dbVars, webVars, geoVars,
                   thrVars, statVars, notifVars, loopVars, obsVars>>

\* main(), finally: one test of "while active_threads"; each thread alive is
\* joined for a second and the list taken again, and the loop is left only
\* when the list is empty or stop_event is not set.
main_join ==
    /\ main_at = "joining"
    /\ main_at' = IF ActiveThreads = {} \/ ~stop_event THEN "closing" ELSE "joining"
    /\ UNCHANGED <<thread_state, interface_closed>>
    /\ UNCHANGED <<clockVars, stopVars, lockVars, cfgVars, dbVars, webVars, geoVars,
                   thrVars, statVars, notifVars, loopVars, obsVars>>

\* main(), finally: meshtastic_interface.close(), and main returns.
main_close ==
    /\ main_at = "closing"
    /\ interface_closed' = TRUE
    /\ main_at' = "returned"
    /\ UNCHANGED <<thread_state>>
    /\ UNCHANGED <<clockVars, stopVars, lockVars, cfgVars, dbVars, webVars, geoVars,
                   thrVars, statVars, notifVars, loopVars, obsVars>>

InitMain == InitWith(StopConfig)

NextMain ==
    \/ Loop
    \/ LoopExit
    \/ shutdown_handler
    \/ \E t \in BackgroundThreads : thread_start(t)
    \/ web_start_fails
    \/ gps_thread_exit
    \/ main_monitor
    \/ main_join
    \/ main_close
    \/ \E p \in StopPositions :
           pc = "top" /\ on_receive("n1", "POSITION_APP", p[1], p[2], <<>>)

\* Every thread that can take a step takes one in the end.
SpecMain ==
    /\ InitMain
    /\ [][NextMain]_vars
    /\ WF_vars(Loop) /\ WF_vars(LoopExit)
    /\ WF_vars(\E t \in BackgroundThreads : thread_start(t))
    /\ WF_vars(gps_thread_exit)
    /\ WF_vars(main_monitor) /\ WF_vars(main_join) /\ WF_vars(main_close)

\* C40: after a shutdown signal has set the stop event, main() eventually
\* stops waiting for its background threads, closes the mesh interface and
\* returns.
C40_MainReturnsAfterShutdown ==
    stop_event ~> (main_at = "returned" /\ interface_closed)

====
